---- MODULE Spec2Model ----
(***************************************************************************)
(* Model of the cosmetic filter cache of adblock-rust                      *)
(* (src/cosmetic_filter_cache.rs) and of the rules it indexes              *)
(* (src/filters/cosmetic.rs).                                              *)
(*                                                                         *)
(* Text is a sequence of one-character strings, so that concatenation,     *)
(* prefixes and separators are what the code makes them.  Option<T> is a   *)
(* sequence of length at most one.                                         *)
(***************************************************************************)
EXTENDS Integers, Sequences, FiniteSets, TLC

VARIABLES
    cache,        \* the CosmeticFilterCache under test
    history,      \* every rule handed to add_filter so far, in call order
    added,        \* the number of add_filter calls since construction
    ret,          \* the last operation on the cache, its arguments and what it returned
    sheet_rules,  \* rules_to_stylesheet on its own: the list it is given
    sheet_out,    \* ... and what it returned (None before the call)
    borrows,      \* concurrent readers: readers holding a shared borrow of the cell
    readers,      \* concurrent readers: each reader's position, local string and result
    parse_in,     \* the rule parser on its own: the line and debug flag it is given
    parse_out,    \* ... and what CosmeticFilter::parse returned (None before the call)
    script_in,    \* the scriptlet catalog on its own: the operation and its arguments
    script_out    \* ... and what the operation returned (None before the call)

vars == <<cache, history, added, ret, sheet_rules, sheet_out, borrows, readers,
         parse_in, parse_out, script_in, script_out>>
cacheVars == <<cache, history, added, ret>>
sheetVars == <<sheet_rules, sheet_out>>
concVars == <<borrows, readers>>
parseVars == <<parse_in, parse_out>>
scriptVars == <<script_in, script_out>>

-----------------------------------------------------------------------------
(* Option<T> *)

None == <<>>
Some(x) == <<x>>
is_some(o) == o # <<>>
is_none(o) == o = <<>>
unwrap(o) == o[1]

(* Vec / slice helpers *)

Range(s) == {s[i] : i \in 1..Len(s)}

RECURSIVE Concat(_)
\* the concatenation of a sequence of texts
Concat(ss) == IF ss = <<>> THEN <<>> ELSE Head(ss) \o Concat(Tail(ss))

SeqsUpTo(S, n) == UNION {[1..k -> S] : k \in 0..n}

-----------------------------------------------------------------------------
(* CosmeticFilterMask *)

UNHIDE == "UNHIDE"
SCRIPT_INJECT == "SCRIPT_INJECT"
IS_UNICODE == "IS_UNICODE"
IS_CLASS_SELECTOR == "IS_CLASS_SELECTOR"
IS_ID_SELECTOR == "IS_ID_SELECTOR"
IS_HREF_SELECTOR == "IS_HREF_SELECTOR"
IS_SIMPLE == "IS_SIMPLE"

(* CosmeticFilter *)

CosmeticFilter(selector, style, mask, key, hostnames, entities, not_hostnames, not_entities) ==
    [selector |-> selector, style |-> style, mask |-> mask, key |-> key,
     hostnames |-> hostnames, entities |-> entities,
     not_hostnames |-> not_hostnames, not_entities |-> not_entities]

\* true when the rule carries any of the four scope sets
has_hostname_constraint(rule) ==
    \/ is_some(rule.hostnames)
    \/ is_some(rule.entities)
    \/ is_some(rule.not_hostnames)
    \/ is_some(rule.not_entities)

\* the rule's scope against the hashes of a request
matches(rule, request_entities, request_hostnames) ==
    LET E == Range(request_entities)
        H == Range(request_hostnames)
        hit(set, req) == Range(unwrap(set)) \cap req # {}
    IN  /\ is_none(rule.hostnames) \/ hit(rule.hostnames, H)
        /\ is_none(rule.entities) \/ hit(rule.entities, E)
        /\ is_none(rule.not_hostnames) \/ ~hit(rule.not_hostnames, H)
        /\ is_none(rule.not_entities) \/ ~hit(rule.not_entities, E)

-----------------------------------------------------------------------------
(* Hostnames are sequences of labels: <<"sub", "example", "com">> is       *)
(* sub.example.com.                                                        *)

HashBits == 16

LabelCode(l) ==
    CASE l = "com" -> 1
      [] l = "uk" -> 2
      [] l = "co" -> 3
      [] l = "example" -> 4
      [] l = "other" -> 5
      [] l = "sub" -> 6
      [] l = "www" -> 7
      [] l = "a" -> 9
      [] l = "b" -> 10
      [] l = "." -> 11
      [] l = "x" -> 12
      [] l = "n" -> 13
      [] l = "-" -> 14
      [] l = "9" -> 15
      [] OTHER -> 8

RECURSIVE hash_from(_, _)
hash_from(h, labels) ==
    IF labels = <<>> THEN h
    ELSE hash_from((h * 31 + LabelCode(Head(labels))) % (2 ^ HashBits), Tail(labels))

\* the project hash of a dotted name
fast_hash(labels) == hash_from(5381, labels)

\* the public suffix list: the rules the model knows, and the default rule `*`
PUBLIC_SUFFIXES == {<<"com">>, <<"uk">>, <<"co", "uk">>}

Suffix(s, n) == SubSeq(s, Len(s) - n + 1, Len(s))

\* number of labels of the public suffix of a hostname
suffix_len(hostname) ==
    LET known == {n \in 1..Len(hostname) : Suffix(hostname, n) \in PUBLIC_SUFFIXES}
    IN  IF known = {} THEN 1 ELSE CHOOSE n \in known : \A m \in known : m <= n

\* psl: the registrable domain of a hostname, None when it has none
domain(hostname) ==
    IF hostname = <<>> \/ Len(hostname) <= suffix_len(hostname) THEN None
    ELSE Some(Suffix(hostname, suffix_len(hostname) + 1))

\* hashes of the hostname's suffixes, from the hostname itself down to its domain
get_hostname_hashes_from_labels(hostname, dom) ==
    [i \in 1..(Len(hostname) - Len(dom) + 1) |->
        fast_hash(SubSeq(hostname, i, Len(hostname)))]

\* hashes of the same suffixes with the public suffix stripped
get_entity_hashes_from_labels(hostname, dom) ==
    LET sl == suffix_len(hostname)
    IN  [i \in 1..(Len(hostname) - Len(dom) + 1) |->
            fast_hash(SubSeq(hostname, i, Len(hostname) - sl))]

\* the two vectors returned in the wrong order
hostname_domain_hashes_swapped(hostname, dom) ==
    <<get_hostname_hashes_from_labels(hostname, dom),
      get_entity_hashes_from_labels(hostname, dom)>>

hostname_domain_hashes(hostname, dom) ==
    <<get_entity_hashes_from_labels(hostname, dom),
      get_hostname_hashes_from_labels(hostname, dom)>>

-----------------------------------------------------------------------------
(* Literals of the stylesheets *)

COMMA == <<",">>
DISPLAY_NONE ==
    <<"{", "d", "i", "s", "p", "l", "a", "y", ":", "n", "o", "n", "e", " ",
      "!", "i", "m", "p", "o", "r", "t", "a", "n", "t", ";", "}">>
NEWLINE == <<"\n">>

RECURSIVE hide_tail(_)
\* lines 22-31: the rules after the first; the unstyled ones join the hide list
hide_tail(rules) ==
    IF rules = <<>> THEN <<>>
    ELSE IF is_some(Head(rules).style) THEN hide_tail(Tail(rules))
    ELSE COMMA \o Head(rules).selector \o hide_tail(Tail(rules))

RECURSIVE styled_lines(_)
\* lines 34-40: one line per collected styled rule
styled_lines(styled_rules) ==
    IF styled_rules = <<>> THEN <<>>
    ELSE Head(styled_rules).selector \o <<" ", "{">> \o unwrap(Head(styled_rules).style)
            \o <<"}">> \o NEWLINE \o styled_lines(Tail(styled_rules))

IsStyled(rule) == is_some(rule.style)

rules_to_stylesheet(rules) ==
    IF rules = <<>> THEN <<>>
    ELSE LET styled_rules == SelectSeq(Tail(rules), IsStyled)
         IN  rules[1].selector \o hide_tail(Tail(rules)) \o DISPLAY_NONE \o NEWLINE
                \o styled_lines(styled_rules)

-----------------------------------------------------------------------------
(* CosmeticFilterCache *)

\* push onto the bucket of `key`, creating the bucket when it is missing
bucket_push(map, key, selector) ==
    IF key \in DOMAIN map
    THEN [map EXCEPT ![key] = Append(@, selector)]
    ELSE [k \in DOMAIN map \cup {key} |-> IF k = key THEN <<selector>> ELSE map[k]]

\* regen_base_stylesheet that moves the rules out of misc_rules as it serializes them
regen_base_stylesheet_draining(self) ==
    IF is_none(self.base_stylesheet)
    THEN [self EXCEPT !.base_stylesheet = Some(rules_to_stylesheet(self.misc_rules)),
                      !.misc_rules = <<>>]
    ELSE self

regen_base_stylesheet(self) ==
    IF is_none(self.base_stylesheet)
    THEN [self EXCEPT !.base_stylesheet = Some(rules_to_stylesheet(self.misc_rules))]
    ELSE self

\* add_filter that forgets line 132: a misc rule leaves the cached stylesheet in place
add_filter_keeps_stylesheet(self, rule) ==
    IF SCRIPT_INJECT \in rule.mask \/ UNHIDE \in rule.mask THEN self
    ELSE IF has_hostname_constraint(rule)
    THEN [self EXCEPT !.specific_rules = Append(@, rule)]
    ELSE IF IS_CLASS_SELECTOR \in rule.mask
    THEN IF is_some(rule.key)
         THEN IF IS_SIMPLE \in rule.mask
              THEN [self EXCEPT !.simple_class_rules = @ \cup {unwrap(rule.key)}]
              ELSE [self EXCEPT !.complex_class_rules =
                                    bucket_push(@, unwrap(rule.key), rule.selector)]
         ELSE self
    ELSE IF IS_ID_SELECTOR \in rule.mask
    THEN IF is_some(rule.key)
         THEN IF IS_SIMPLE \in rule.mask
              THEN [self EXCEPT !.simple_id_rules = @ \cup {unwrap(rule.key)}]
              ELSE [self EXCEPT !.complex_id_rules =
                                    bucket_push(@, unwrap(rule.key), rule.selector)]
         ELSE self
    ELSE [self EXCEPT !.misc_rules = Append(@, rule)]

\* add_filter whose early return of lines 95-99 tests SCRIPT_INJECT alone
add_filter_installs_unhide(self, rule) ==
    IF SCRIPT_INJECT \in rule.mask THEN self
    ELSE IF has_hostname_constraint(rule)
    THEN [self EXCEPT !.specific_rules = Append(@, rule)]
    ELSE IF IS_CLASS_SELECTOR \in rule.mask
    THEN IF is_some(rule.key)
         THEN IF IS_SIMPLE \in rule.mask
              THEN [self EXCEPT !.simple_class_rules = @ \cup {unwrap(rule.key)}]
              ELSE [self EXCEPT !.complex_class_rules =
                                    bucket_push(@, unwrap(rule.key), rule.selector)]
         ELSE self
    ELSE IF IS_ID_SELECTOR \in rule.mask
    THEN IF is_some(rule.key)
         THEN IF IS_SIMPLE \in rule.mask
              THEN [self EXCEPT !.simple_id_rules = @ \cup {unwrap(rule.key)}]
              ELSE [self EXCEPT !.complex_id_rules =
                                    bucket_push(@, unwrap(rule.key), rule.selector)]
         ELSE self
    ELSE [self EXCEPT !.misc_rules = Append(@, rule), !.base_stylesheet = None]

\* add_filter that stores a rule with a hostname constraint and then goes on to
\* store it by its shape as well
add_filter_scoped_falls_through(self, rule) ==
    LET stored == IF has_hostname_constraint(rule)
                  THEN [self EXCEPT !.specific_rules = Append(@, rule)]
                  ELSE self
    IN  IF SCRIPT_INJECT \in rule.mask \/ UNHIDE \in rule.mask THEN self
        ELSE IF IS_CLASS_SELECTOR \in rule.mask
        THEN IF is_some(rule.key)
             THEN IF IS_SIMPLE \in rule.mask
                  THEN [stored EXCEPT !.simple_class_rules = @ \cup {unwrap(rule.key)}]
                  ELSE [stored EXCEPT !.complex_class_rules =
                                          bucket_push(@, unwrap(rule.key), rule.selector)]
             ELSE stored
        ELSE IF IS_ID_SELECTOR \in rule.mask
        THEN IF is_some(rule.key)
             THEN IF IS_SIMPLE \in rule.mask
                  THEN [stored EXCEPT !.simple_id_rules = @ \cup {unwrap(rule.key)}]
                  ELSE [stored EXCEPT !.complex_id_rules =
                                          bucket_push(@, unwrap(rule.key), rule.selector)]
             ELSE stored
        ELSE [stored EXCEPT !.misc_rules = Append(@, rule), !.base_stylesheet = None]

\* add_filter that tests the selector shape before the hostname constraint
add_filter_shape_first(self, rule) ==
    IF SCRIPT_INJECT \in rule.mask \/ UNHIDE \in rule.mask THEN self
    ELSE IF IS_CLASS_SELECTOR \in rule.mask
    THEN IF is_some(rule.key)
         THEN IF IS_SIMPLE \in rule.mask
              THEN [self EXCEPT !.simple_class_rules = @ \cup {unwrap(rule.key)}]
              ELSE [self EXCEPT !.complex_class_rules =
                                    bucket_push(@, unwrap(rule.key), rule.selector)]
         ELSE self
    ELSE IF IS_ID_SELECTOR \in rule.mask
    THEN IF is_some(rule.key)
         THEN IF IS_SIMPLE \in rule.mask
              THEN [self EXCEPT !.simple_id_rules = @ \cup {unwrap(rule.key)}]
              ELSE [self EXCEPT !.complex_id_rules =
                                    bucket_push(@, unwrap(rule.key), rule.selector)]
         ELSE self
    ELSE IF has_hostname_constraint(rule)
    THEN [self EXCEPT !.specific_rules = Append(@, rule)]
    ELSE [self EXCEPT !.misc_rules = Append(@, rule), !.base_stylesheet = None]

add_filter(self, rule) ==
    IF SCRIPT_INJECT \in rule.mask \/ UNHIDE \in rule.mask THEN self
    ELSE IF has_hostname_constraint(rule)
    THEN [self EXCEPT !.specific_rules = Append(@, rule)]
    ELSE IF IS_CLASS_SELECTOR \in rule.mask
    THEN IF is_some(rule.key)
         THEN IF IS_SIMPLE \in rule.mask
              THEN [self EXCEPT !.simple_class_rules = @ \cup {unwrap(rule.key)}]
              ELSE [self EXCEPT !.complex_class_rules =
                                    bucket_push(@, unwrap(rule.key), rule.selector)]
         ELSE self
    ELSE IF IS_ID_SELECTOR \in rule.mask
    THEN IF is_some(rule.key)
         THEN IF IS_SIMPLE \in rule.mask
              THEN [self EXCEPT !.simple_id_rules = @ \cup {unwrap(rule.key)}]
              ELSE [self EXCEPT !.complex_id_rules =
                                    bucket_push(@, unwrap(rule.key), rule.selector)]
         ELSE self
    ELSE [self EXCEPT !.misc_rules = Append(@, rule), !.base_stylesheet = None]

RECURSIVE add_filters(_, _)
add_filters(self, rules) ==
    IF rules = <<>> THEN self ELSE add_filters(add_filter(self, Head(rules)), Tail(rules))

EmptyCache ==
    [simple_class_rules |-> {}, simple_id_rules |-> {},
     complex_class_rules |-> <<>>, complex_id_rules |-> <<>>,
     specific_rules |-> <<>>, misc_rules |-> <<>>, base_stylesheet |-> None]

new(rules) == regen_base_stylesheet(add_filters(EmptyCache, rules))


\* what an operation hands back: a value, or the abort of a failed unwrap
Ok(v) == [status |-> "ok", val |-> v]
Panic == [status |-> "panic", val |-> None]

\* lines 142-151 and 152-161: the tokens found in the simple table that have no bucket
simple_hits(tokens, simple_rules, complex_rules) ==
    SelectSeq(tokens, LAMBDA t : t \in simple_rules /\ t \notin DOMAIN complex_rules)

RECURSIVE complex_hits(_, _, _)
\* lines 142-151 and 152-161: the buckets of the tokens found in the simple table
complex_hits(tokens, simple_rules, complex_rules) ==
    IF tokens = <<>> THEN <<>>
    ELSE (IF Head(tokens) \in simple_rules /\ Head(tokens) \in DOMAIN complex_rules
          THEN complex_rules[Head(tokens)]
          ELSE <<>>)
         \o complex_hits(Tail(tokens), simple_rules, complex_rules)

RECURSIVE emit(_, _, _)
\* lines 169-194: one of the three loops, acc = [stylesheet, first]
emit(acc, prefix, items) ==
    IF items = <<>> THEN acc
    ELSE emit([stylesheet |-> (IF ~acc.first THEN acc.stylesheet \o COMMA ELSE acc.stylesheet)
                                 \o prefix \o Head(items),
               first |-> FALSE],
              prefix, Tail(items))

\* class_id_stylesheet that emits the complex selectors before the simple ids
class_id_stylesheet_complex_first(self, classes, ids) ==
    LET simple_classes == simple_hits(classes, self.simple_class_rules, self.complex_class_rules)
        simple_ids == simple_hits(ids, self.simple_id_rules, self.complex_id_rules)
        complex_selectors ==
            complex_hits(classes, self.simple_class_rules, self.complex_class_rules)
                \o complex_hits(ids, self.simple_id_rules, self.complex_id_rules)
    IN  IF simple_classes = <<>> /\ simple_ids = <<>> /\ complex_selectors = <<>>
        THEN Ok(None)
        ELSE LET a0 == [stylesheet |-> <<>>, first |-> TRUE]
                 a1 == emit(a0, <<".">>, simple_classes)
                 a2 == emit(a1, <<>>, complex_selectors)
                 a3 == emit(a2, <<"#">>, simple_ids)
             IN  Ok(Some(a3.stylesheet \o DISPLAY_NONE))

class_id_stylesheet(self, classes, ids) ==
    LET simple_classes == simple_hits(classes, self.simple_class_rules, self.complex_class_rules)
        simple_ids == simple_hits(ids, self.simple_id_rules, self.complex_id_rules)
        complex_selectors ==
            complex_hits(classes, self.simple_class_rules, self.complex_class_rules)
                \o complex_hits(ids, self.simple_id_rules, self.complex_id_rules)
    IN  IF simple_classes = <<>> /\ simple_ids = <<>> /\ complex_selectors = <<>>
        THEN Ok(None)
        ELSE LET a0 == [stylesheet |-> <<>>, first |-> TRUE]
                 a1 == emit(a0, <<".">>, simple_classes)
                 a2 == emit(a1, <<"#">>, simple_ids)
                 a3 == emit(a2, <<>>, complex_selectors)
             IN  Ok(Some(a3.stylesheet \o DISPLAY_NONE))

\* hostname_stylesheet without the filter of line 211
hostname_stylesheet_unfiltered(self, hostname) ==
    LET dom == domain(hostname)
    IN  IF is_none(dom) THEN Ok(<<>>)
        ELSE Ok(rules_to_stylesheet(self.specific_rules))

hostname_stylesheet(self, hostname) ==
    LET dom == domain(hostname)
    IN  IF is_none(dom) THEN Ok(<<>>)
        ELSE LET hashes == hostname_domain_hashes(hostname, unwrap(dom))
                 request_entities == hashes[1]
                 request_hostnames == hashes[2]
             IN  Ok(rules_to_stylesheet(
                     SelectSeq(self.specific_rules,
                               LAMBDA rule : matches(rule, request_entities, request_hostnames))))

\* base_stylesheet without the regeneration of line 219
base_stylesheet_no_regen(self) ==
    [self |-> self,
     result |-> IF is_none(self.base_stylesheet) THEN Panic
                ELSE Ok(unwrap(self.base_stylesheet))]

\* the cache after the call (the cell may have been filled) and the result
base_stylesheet(self) ==
    LET after == regen_base_stylesheet(self)
    IN  [self |-> after,
         result |-> IF is_none(after.base_stylesheet) THEN Panic
                    ELSE Ok(unwrap(after.base_stylesheet))]

-----------------------------------------------------------------------------
(* The rules and requests the model draws from.  Each rule is what the     *)
(* parser yields for the line in its comment.                              *)

Sorted(hashes) == SortSeq(hashes, LAMBDA x, y : x < y)
Hashes(names) == Some(Sorted([i \in 1..Len(names) |-> fast_hash(names[i])]))

ExampleCom == <<"example", "com">>
SubExampleCom == <<"sub", "example", "com">>
OtherCom == <<"other", "com">>
WwwExampleCoUk == <<"www", "example", "co", "uk">>

Unscoped(selector, style, mask, key) ==
    CosmeticFilter(selector, style, mask, key, None, None, None, None)

\* ##.a
RuleClassA == Unscoped(<<".", "a">>, None, {IS_CLASS_SELECTOR, IS_SIMPLE}, Some(<<"a">>))
\* ##.a[t]
RuleClassAAttr ==
    Unscoped(<<".", "a", "[", "t", "]">>, None, {IS_CLASS_SELECTOR}, Some(<<"a">>))
\* ##.a > p
RuleClassAChild ==
    Unscoped(<<".", "a", " ", ">", " ", "p">>, None, {IS_CLASS_SELECTOR}, Some(<<"a">>))
\* ##.b
RuleClassB == Unscoped(<<".", "b">>, None, {IS_CLASS_SELECTOR, IS_SIMPLE}, Some(<<"b">>))
\* ###i
RuleIdI == Unscoped(<<"#", "i">>, None, {IS_ID_SELECTOR, IS_SIMPLE}, Some(<<"i">>))
\* ###i[t]
RuleIdIAttr == Unscoped(<<"#", "i", "[", "t", "]">>, None, {IS_ID_SELECTOR}, Some(<<"i">>))
\* ##p
RuleP == Unscoped(<<"p">>, None, {}, None)
\* ##q:style(w)
RuleQStyled == Unscoped(<<"q">>, Some(<<"w">>), {}, None)
\* ##[h]
RuleAttr == Unscoped(<<"[", "h", "]">>, None, {}, None)
\* ##+js(f)
RuleScript == Unscoped(<<"f">>, None, {SCRIPT_INJECT}, None)
\* #@#p
RuleUnhideP == Unscoped(<<"p">>, None, {UNHIDE}, None)
\* #@#.a
RuleUnhideClassA ==
    Unscoped(<<".", "a">>, None, {UNHIDE, IS_CLASS_SELECTOR, IS_SIMPLE}, Some(<<"a">>))
\* example.com#@#.c
RuleUnhideScoped ==
    CosmeticFilter(<<".", "c">>, None, {UNHIDE, IS_CLASS_SELECTOR, IS_SIMPLE}, Some(<<"c">>),
                   Hashes(<<ExampleCom>>), None, None, None)
\* example.com##.a
RuleHost ==
    CosmeticFilter(<<".", "a">>, None, {IS_CLASS_SELECTOR, IS_SIMPLE}, Some(<<"a">>),
                   Hashes(<<ExampleCom>>), None, None, None)
\* example.*###e:style(w)
RuleEntity ==
    CosmeticFilter(<<"#", "e">>, Some(<<"w">>), {IS_ID_SELECTOR, IS_SIMPLE}, Some(<<"e">>),
                   None, Hashes(<<<<"example">>>>), None, None)
\* example.com,~sub.example.com##x
RuleHostNotSub ==
    CosmeticFilter(<<"x">>, None, {}, None,
                   Hashes(<<ExampleCom>>), None, Hashes(<<SubExampleCom>>), None)
\* ~example.*##y
RuleNotEntity ==
    CosmeticFilter(<<"y">>, None, {}, None, None, None, None, Hashes(<<<<"example">>>>))
\* other.com,sub.example.com,example.*##z
RuleHostAndEntity ==
    CosmeticFilter(<<"z">>, None, {}, None,
                   Hashes(<<OtherCom, SubExampleCom>>), Hashes(<<<<"example">>>>), None, None)

\* the rules add_filter is called with after construction: one for each way it routes
Rules ==
    {RuleClassA, RuleClassAAttr, RuleIdI, RuleIdIAttr, RuleP, RuleQStyled,
     RuleScript, RuleUnhideClassA, RuleHost, RuleNotEntity}

\* the rule batches a cache is constructed from
Batches ==
    {<<>>,
     <<RuleClassB, RuleIdI, RuleClassA, RuleClassAAttr, RuleClassAChild>>,
     <<RuleHost, RuleEntity, RuleHostNotSub, RuleNotEntity, RuleHostAndEntity>>,
     <<RuleEntity, RuleQStyled, RuleAttr, RuleUnhideP, RuleUnhideScoped, RuleP>>}

\* the class and id tokens of a page, and the hostnames of its requests
Probes ==
    {<<<<>>, <<>>>>,
     <<<<<<"a">>>>, <<>>>>,
     <<<<>>, <<<<"i">>>>>>,
     <<<<<<"b">>, <<"a">>>>, <<<<"i">>>>>>,
     <<<<<<"a">>, <<"b">>, <<"c">>>>, <<<<"i">>>>>>}
Hostnames == {ExampleCom, SubExampleCom, OtherCom, WwwExampleCoUk, <<"com">>, <<"co", "uk">>}

\* add_filter calls after construction
MaxAdd == 2

-----------------------------------------------------------------------------
(* The cache: construction, insertion and the three reads *)

NoCall == [op |-> "new", args |-> <<>>, result |-> Ok(None)]

IdleSheet == sheet_rules = <<>> /\ sheet_out = None
IdleCache == cache = EmptyCache /\ history = <<>> /\ added = 0 /\ ret = NoCall
IdleReaders == borrows = {} /\ readers = <<>>
IdleParse == parse_in = None /\ parse_out = None
IdleScript == script_in = None /\ script_out = None

Init ==
    /\ \E rules \in Batches :
          /\ cache = new(rules)
          /\ history = rules
    /\ added = 0
    /\ ret = NoCall
    /\ IdleSheet
    /\ IdleReaders
    /\ IdleParse
    /\ IdleScript

AddFilter ==
    \E rule \in Rules :
        /\ added < MaxAdd
        /\ cache' = add_filter(cache, rule)
        /\ history' = Append(history, rule)
        /\ added' = added + 1
        /\ ret' = [op |-> "add_filter", args |-> <<rule>>, result |-> Ok(None)]
        /\ UNCHANGED <<sheetVars, concVars, parseVars, scriptVars>>

ClassIdStylesheet ==
    \E probe \in Probes :
        /\ ret' = [op |-> "class_id_stylesheet", args |-> probe,
                   result |-> class_id_stylesheet(cache, probe[1], probe[2])]
        /\ UNCHANGED <<cache, history, added, sheetVars, concVars, parseVars, scriptVars>>

HostnameStylesheet ==
    \E hostname \in Hostnames :
        /\ ret' = [op |-> "hostname_stylesheet", args |-> <<hostname>>,
                   result |-> hostname_stylesheet(cache, hostname)]
        /\ UNCHANGED <<cache, history, added, sheetVars, concVars, parseVars, scriptVars>>

BaseStylesheet ==
    /\ cache' = base_stylesheet(cache).self
    /\ ret' = [op |-> "base_stylesheet", args |-> <<>>, result |-> base_stylesheet(cache).result]
    /\ UNCHANGED <<history, added, sheetVars, concVars, parseVars, scriptVars>>

Next == AddFilter \/ ClassIdStylesheet \/ HostnameStylesheet \/ BaseStylesheet

Spec == Init /\ [][Next]_vars

-----------------------------------------------------------------------------
(* rules_to_stylesheet on its own, over every short list of rules *)

\* ###e:style(w)
RuleEStyled == Unscoped(<<"#", "e">>, Some(<<"w">>), {}, None)

SheetRules == {RuleP, RuleAttr, RuleQStyled, RuleEStyled}

\* length of the lists rules_to_stylesheet is given
MaxSheetLen == 3

SheetInit ==
    /\ sheet_rules \in SeqsUpTo(SheetRules, MaxSheetLen)
    /\ sheet_out = None
    /\ IdleCache
    /\ IdleReaders
    /\ IdleParse
    /\ IdleScript

Serialize ==
    /\ is_none(sheet_out)
    /\ sheet_out' = Some(rules_to_stylesheet(sheet_rules))
    /\ UNCHANGED <<sheet_rules, cacheVars, concVars, parseVars, scriptVars>>

SheetNext == Serialize

SheetSpec == SheetInit /\ [][SheetNext]_vars

-----------------------------------------------------------------------------
(* Several readers inside base_stylesheet at once.  The cell is a RefCell: *)
(* its borrow flag and its content are plain memory, so the steps of       *)
(* lines 87-89 and 221 of different readers interleave unsynchronised.     *)

\* readers calling base_stylesheet at the same time
NumReaders == 2

ReaderIds == 1..NumReaders

Prefixes(text) == {SubSeq(text, 1, n) : n \in 0..Len(text)}

ReadersInit ==
    /\ \E rules \in Batches, rule \in Rules :
          /\ cache = add_filter(new(rules), rule)
          /\ history = Append(rules, rule)
    /\ added = 1
    /\ ret = NoCall
    /\ borrows = {}
    /\ readers = [r \in ReaderIds |-> [pc |-> "check", stylesheet |-> <<>>, torn |-> FALSE,
                                        result |-> Ok(None)]]
    /\ IdleSheet
    /\ IdleParse
    /\ IdleScript

\* line 87: self.base_stylesheet.borrow().is_none()
ReaderCheck(r) ==
    /\ readers[r].pc = "check"
    /\ readers' = [readers EXCEPT ![r].pc =
                        IF is_none(cache.base_stylesheet) THEN "compute" ELSE "borrow"]
    /\ UNCHANGED <<cache, history, added, ret, borrows, sheetVars, parseVars, scriptVars>>

\* line 88: let stylesheet = rules_to_stylesheet(&self.misc_rules)
ReaderCompute(r) ==
    /\ readers[r].pc = "compute"
    /\ readers' = [readers EXCEPT ![r].pc = "replace",
                                  ![r].stylesheet = rules_to_stylesheet(cache.misc_rules)]
    /\ UNCHANGED <<cache, history, added, ret, borrows, sheetVars, parseVars, scriptVars>>

\* line 89: self.base_stylesheet.replace(Some(stylesheet)), no reader borrowing the cell
ReaderReplace(r) ==
    /\ readers[r].pc = "replace"
    /\ borrows = {}
    /\ cache' = [cache EXCEPT !.base_stylesheet = Some(readers[r].stylesheet)]
    /\ readers' = [readers EXCEPT ![r].pc = "borrow"]
    /\ UNCHANGED <<history, added, ret, borrows, sheetVars, parseVars, scriptVars>>

\* line 89 while another reader holds its borrow of line 221, the flag seen:
\* borrow_mut fails and the reader aborts
ReaderReplaceBorrowed(r) ==
    /\ readers[r].pc = "replace"
    /\ borrows # {}
    /\ readers' = [readers EXCEPT ![r].pc = "done", ![r].result = Panic]
    /\ UNCHANGED <<cache, history, added, ret, borrows, sheetVars, parseVars, scriptVars>>

\* line 89 while another reader holds its borrow of line 221, the flag missed:
\* the old string is dropped under the readers that are copying it
ReaderReplaceRacing(r) ==
    /\ readers[r].pc = "replace"
    /\ borrows # {}
    /\ cache' = [cache EXCEPT !.base_stylesheet = Some(readers[r].stylesheet)]
    /\ readers' = [q \in ReaderIds |->
                      IF q = r THEN [readers[q] EXCEPT !.pc = "borrow"]
                      ELSE IF q \in borrows
                           THEN [readers[q] EXCEPT !.torn = TRUE,
                                                   !.stylesheet = unwrap(cache.base_stylesheet)]
                           ELSE readers[q]]
    /\ UNCHANGED <<history, added, ret, borrows, sheetVars, parseVars, scriptVars>>

\* line 221: self.base_stylesheet.borrow().as_ref().unwrap(), the copy begins
ReaderBorrow(r) ==
    /\ readers[r].pc = "borrow"
    /\ IF is_none(cache.base_stylesheet)
       THEN /\ readers' = [readers EXCEPT ![r].pc = "done", ![r].result = Panic]
            /\ UNCHANGED borrows
       ELSE /\ readers' = [readers EXCEPT ![r].pc = "clone"]
            /\ borrows' = borrows \cup {r}
    /\ UNCHANGED <<cache, history, added, ret, sheetVars, parseVars, scriptVars>>

\* line 221: .clone() ends and the borrow is released
ReaderClone(r) ==
    /\ readers[r].pc = "clone"
    /\ IF readers[r].torn
       THEN \E part \in Prefixes(readers[r].stylesheet) :
                readers' = [readers EXCEPT ![r].pc = "done", ![r].result = Ok(part)]
       ELSE readers' = [readers EXCEPT ![r].pc = "done",
                                       ![r].result = Ok(unwrap(cache.base_stylesheet))]
    /\ borrows' = borrows \ {r}
    /\ UNCHANGED <<cache, history, added, ret, sheetVars, parseVars, scriptVars>>

ReadersNext ==
    \E r \in ReaderIds :
        \/ ReaderCheck(r)
        \/ ReaderCompute(r)
        \/ ReaderReplace(r)
        \/ ReaderReplaceBorrowed(r)
        \/ ReaderReplaceRacing(r)
        \/ ReaderBorrow(r)
        \/ ReaderClone(r)

ReadersSpec == ReadersInit /\ [][ReadersNext]_vars

-----------------------------------------------------------------------------
(* What the properties are stated with *)

Last(seq) == seq[Len(seq)]

\* text occurs in `text` as a contiguous run
Occurs(needle, text) ==
    \E i \in 0..(Len(text) - Len(needle)) : SubSeq(text, i + 1, i + Len(needle)) = needle

RECURSIVE JoinComma(_)
\* the texts separated by single commas
JoinComma(texts) ==
    IF texts = <<>> THEN <<>>
    ELSE IF Len(texts) = 1 THEN texts[1]
    ELSE texts[1] \o COMMA \o JoinComma(Tail(texts))

Selectors(rules) == [i \in 1..Len(rules) |-> rules[i].selector]

Skipped(rule) == SCRIPT_INJECT \in rule.mask \/ UNHIDE \in rule.mask
ClassKeyed(rule) == IS_CLASS_SELECTOR \in rule.mask /\ is_some(rule.key)
IdKeyed(rule) == IS_ID_SELECTOR \in rule.mask /\ is_some(rule.key)

\* a rule that belongs to the base stylesheet
MiscRule(rule) ==
    ~Skipped(rule) /\ ~has_hostname_constraint(rule) /\ ~ClassKeyed(rule) /\ ~IdKeyed(rule)

\* the hostname suffixes of a request, from the hostname down to its registrable domain
DomainSuffixes(hostname) ==
    IF is_none(domain(hostname)) THEN {}
    ELSE {Suffix(hostname, n) : n \in Len(unwrap(domain(hostname)))..Len(hostname)}

RequestHostnameHashes(hostname) == {fast_hash(s) : s \in DomainSuffixes(hostname)}

\* the same suffixes without their public suffix
RequestEntityHashes(hostname) ==
    {fast_hash(SubSeq(s, 1, Len(s) - suffix_len(hostname))) : s \in DomainSuffixes(hostname)}

-----------------------------------------------------------------------------
(* C1: whatever reads came in between, base_stylesheet() returns            *)
(* rules_to_stylesheet of the misc rules inserted so far, in insertion      *)
(* order, and the cached value is either absent or that serialization.      *)
C1_BaseStylesheetCurrent ==
    LET expected == rules_to_stylesheet(SelectSeq(history, MiscRule))
    IN  /\ is_none(cache.base_stylesheet) \/ unwrap(cache.base_stylesheet) = expected
        /\ ret.op = "base_stylesheet" => ret.result = Ok(expected)

\* a read after a misc rule was added to a cache that already held misc rules
C1_Witness ==
    /\ ret.op = "base_stylesheet"
    /\ added >= 1
    /\ MiscRule(Last(history))
    /\ Len(cache.misc_rules) >= 2

-----------------------------------------------------------------------------
\* the text up to and including the first newline
FirstLine(text) ==
    IF \E i \in 1..Len(text) : text[i] = "\n"
    THEN SubSeq(text, 1, CHOOSE i \in 1..Len(text) :
                            text[i] = "\n" /\ \A j \in 1..(i - 1) : text[j] # "\n")
    ELSE text

AfterFirstLine(text) == SubSeq(text, Len(FirstLine(text)) + 1, Len(text))

Unstyled(rule) == is_none(rule.style)

(* C2: for a non-empty list, the hide rule of rules_to_stylesheet is the   *)
(* comma-joined selectors of exactly the rules without a style, in list    *)
(* order, followed by {display:none !important;}\n, wherever the styled    *)
(* rules stand in the list.                                                *)
C2_HideRuleIsTheUnstyledRules ==
    (is_some(sheet_out) /\ sheet_rules # <<>>) =>
        FirstLine(unwrap(sheet_out)) =
            JoinComma(Selectors(SelectSeq(sheet_rules, Unstyled))) \o DISPLAY_NONE \o NEWLINE

-----------------------------------------------------------------------------
StyleLine(rule) == rule.selector \o <<" ", "{">> \o unwrap(rule.style) \o <<"}", "\n">>

(* C3: every rule with a style yields exactly one line                     *)
(* `selector {declarations}\n` after the hide rule, in list order, also    *)
(* when it is the first or the only rule.                                  *)
C3_EveryStyledRuleHasItsLine ==
    is_some(sheet_out) =>
        LET styled == SelectSeq(sheet_rules, IsStyled)
        IN  AfterFirstLine(unwrap(sheet_out)) =
                Concat([i \in 1..Len(styled) |-> StyleLine(styled[i])])

-----------------------------------------------------------------------------
SingleHostname(rule) ==
    /\ is_some(rule.hostnames) /\ Len(unwrap(rule.hostnames)) = 1
    /\ is_none(rule.entities) /\ is_none(rule.not_hostnames) /\ is_none(rule.not_entities)

(* C4: a rule installed with a single positive hostname h0 and no other    *)
(* scope is part of hostname_stylesheet(h) iff one of the suffixes of h,   *)
(* from h down to its registrable domain, hashes to h0.                    *)
C4_SingleHostnameRule ==
    ret.op = "hostname_stylesheet" =>
        \A i \in 1..Len(cache.specific_rules) :
            LET rule == cache.specific_rules[i]
            IN  SingleHostname(rule) =>
                    (Occurs(rule.selector, ret.result.val)
                        <=> \E s \in DomainSuffixes(ret.args[1]) :
                                fast_hash(s) = unwrap(rule.hostnames)[1])

\* the rule of example.com is served to sub.example.com
C4_Witness ==
    /\ ret.op = "hostname_stylesheet"
    /\ ret.args = <<SubExampleCom>>
    /\ \E i \in 1..Len(cache.specific_rules) :
          /\ SingleHostname(cache.specific_rules[i])
          /\ Occurs(cache.specific_rules[i].selector, ret.result.val)
    /\ \E i \in 1..Len(cache.specific_rules) : ~SingleHostname(cache.specific_rules[i])

-----------------------------------------------------------------------------
Meets(set, hashes) == Range(unwrap(set)) \cap hashes # {}

Retained(rule, hostname) ==
    /\ is_none(rule.hostnames) \/ Meets(rule.hostnames, RequestHostnameHashes(hostname))
    /\ is_none(rule.entities) \/ Meets(rule.entities, RequestEntityHashes(hostname))
    /\ is_none(rule.not_hostnames) \/ ~Meets(rule.not_hostnames, RequestHostnameHashes(hostname))
    /\ is_none(rule.not_entities) \/ ~Meets(rule.not_entities, RequestEntityHashes(hostname))

(* C5: for a hostname with a registrable domain, hostname_stylesheet       *)
(* keeps a rule of specific_rules iff each positive set is absent or meets *)
(* the request hashes and each negative set is absent or disjoint from     *)
(* them, and serializes exactly the kept rules in insertion order.         *)
C5_HostnameStylesheetRetains ==
    (ret.op = "hostname_stylesheet" /\ is_some(domain(ret.args[1]))) =>
        ret.result =
            Ok(rules_to_stylesheet(
                  SelectSeq(cache.specific_rules, LAMBDA rule : Retained(rule, ret.args[1]))))

\* some rules are kept and some dropped, on a negative and on a positive set
C5_Witness ==
    /\ ret.op = "hostname_stylesheet"
    /\ is_some(domain(ret.args[1]))
    /\ \E i, j, k, l \in 1..Len(cache.specific_rules) :
          /\ i < j
          /\ Retained(cache.specific_rules[i], ret.args[1])
          /\ Retained(cache.specific_rules[j], ret.args[1])
          /\ ~Retained(cache.specific_rules[k], ret.args[1])
          /\ is_some(cache.specific_rules[k].not_hostnames)
          /\ ~Retained(cache.specific_rules[l], ret.args[1])
          /\ is_none(cache.specific_rules[l].not_hostnames)
          /\ is_none(cache.specific_rules[l].not_entities)

-----------------------------------------------------------------------------
(* C6: no lookup aborts; a lookup that matches no rule returns empty       *)
(* output, and hostname_stylesheet returns the empty string for a hostname *)
(* without registrable domain, whatever rules are installed.               *)
C6_LookupsNeverFail ==
    /\ ret.result.status = "ok"
    /\ (ret.op = "hostname_stylesheet" /\ is_none(domain(ret.args[1])))
          => ret.result.val = <<>>
    /\ (ret.op = "hostname_stylesheet"
          /\ \A i \in 1..Len(cache.specific_rules) :
                ~Retained(cache.specific_rules[i], ret.args[1]))
          => ret.result.val = <<>>
    /\ (ret.op = "class_id_stylesheet"
          /\ Range(ret.args[1]) \cap cache.simple_class_rules = {}
          /\ Range(ret.args[2]) \cap cache.simple_id_rules = {})
          => ret.result.val = None
    /\ (ret.op = "base_stylesheet" /\ cache.misc_rules = <<>>) => ret.result.val = <<>>

\* a hostname that is a public suffix, asked of a cache holding a rule that excludes hosts only
C6_Witness ==
    /\ ret.op = "hostname_stylesheet"
    /\ is_none(domain(ret.args[1]))
    /\ \E i \in 1..Len(cache.specific_rules) :
          /\ is_none(cache.specific_rules[i].hostnames)
          /\ is_none(cache.specific_rules[i].entities)
    /\ cache.misc_rules # <<>>

-----------------------------------------------------------------------------
(* C7: add_filter with a SCRIPT_INJECT or UNHIDE rule leaves every        *)
(* container of the cache and the cached base stylesheet unchanged.        *)
C7_SkippedRulesChangeNothing ==
    [][(added' = added + 1 /\ Skipped(Last(history'))) => cache' = cache]_vars

\* an UNHIDE rule was handed to a cache that holds rules and a cached stylesheet
C7_Witness ==
    /\ ret.op = "add_filter"
    /\ UNHIDE \in ret.args[1].mask
    /\ cache.simple_class_rules = {}
    /\ cache.misc_rules # <<>>
    /\ is_some(cache.base_stylesheet)

-----------------------------------------------------------------------------
Containers ==
    {"simple_class_rules", "simple_id_rules", "complex_class_rules", "complex_id_rules",
     "specific_rules", "misc_rules", "base_stylesheet"}

\* c and d agree outside the fields named
SameExcept(c, d, fields) == \A f \in Containers \ fields : c[f] = d[f]

\* map is `old` with the selector appended to the bucket of key
Bucketed(old, map, key, selector) ==
    /\ DOMAIN map = DOMAIN old \cup {key}
    /\ map[key] = (IF key \in DOMAIN old THEN old[key] ELSE <<>>) \o <<selector>>
    /\ \A k \in DOMAIN old \ {key} : map[k] = old[k]

Routed(c, d, rule) ==
    IF has_hostname_constraint(rule)
    THEN /\ d.specific_rules = Append(c.specific_rules, rule)
         /\ SameExcept(c, d, {"specific_rules"})
    ELSE IF ClassKeyed(rule)
    THEN IF IS_SIMPLE \in rule.mask
         THEN /\ d.simple_class_rules = c.simple_class_rules \cup {unwrap(rule.key)}
              /\ SameExcept(c, d, {"simple_class_rules"})
         ELSE /\ Bucketed(c.complex_class_rules, d.complex_class_rules,
                          unwrap(rule.key), rule.selector)
              /\ SameExcept(c, d, {"complex_class_rules"})
    ELSE IF IdKeyed(rule)
    THEN IF IS_SIMPLE \in rule.mask
         THEN /\ d.simple_id_rules = c.simple_id_rules \cup {unwrap(rule.key)}
              /\ SameExcept(c, d, {"simple_id_rules"})
         ELSE /\ Bucketed(c.complex_id_rules, d.complex_id_rules,
                          unwrap(rule.key), rule.selector)
              /\ SameExcept(c, d, {"complex_id_rules"})
    ELSE /\ d.misc_rules = Append(c.misc_rules, rule)
         /\ d.base_stylesheet = None
         /\ SameExcept(c, d, {"misc_rules", "base_stylesheet"})

(* C8: a rule that is not skipped goes, in this order of priority: with    *)
(* any scope set to specific_rules only; a class selector with a key to    *)
(* simple_class_rules (when merely `.key`) or to complex_class_rules[key]; *)
(* the same for an id selector; any other rule to misc_rules, and the      *)
(* cached base stylesheet is invalidated.                                  *)
C8_AddFilterRoutes ==
    [][(added' = added + 1 /\ ~Skipped(Last(history')))
          => Routed(cache, cache', Last(history'))]_vars

\* a scoped class rule went to specific_rules of a cache that has class rules of its key
C8_Witness ==
    /\ ret.op = "add_filter"
    /\ has_hostname_constraint(ret.args[1])
    /\ ClassKeyed(ret.args[1])
    /\ unwrap(ret.args[1].key) \in cache.simple_class_rules
    /\ unwrap(ret.args[1].key) \in DOMAIN cache.complex_class_rules
    /\ Last(cache.specific_rules) = ret.args[1]

-----------------------------------------------------------------------------
RECURSIVE Buckets(_, _, _)
\* the buckets of the tokens that hit the simple table, in token order
Buckets(tokens, simple, complex) ==
    IF tokens = <<>> THEN <<>>
    ELSE (IF Head(tokens) \in simple /\ Head(tokens) \in DOMAIN complex
          THEN complex[Head(tokens)] ELSE <<>>)
         \o Buckets(Tail(tokens), simple, complex)

PureHits(tokens, simple, complex) ==
    SelectSeq(tokens, LAMBDA t : t \in simple /\ t \notin DOMAIN complex)

Prefixed(mark, tokens) == [i \in 1..Len(tokens) |-> <<mark>> \o tokens[i]]

(* C9: the output of class_id_stylesheet is one selector list: the pure    *)
(* simple class hits as `.c`, then the pure simple id hits as `#i`, then   *)
(* the complex selectors, each group in input order, separated by single   *)
(* commas, followed by {display:none !important;}; there is no stylesheet  *)
(* exactly when the three groups are empty.                                *)
C9_ClassIdSelectorList ==
    ret.op = "class_id_stylesheet" =>
        LET classes == ret.args[1]
            ids == ret.args[2]
            group1 == Prefixed(".", PureHits(classes, cache.simple_class_rules,
                                             cache.complex_class_rules))
            group2 == Prefixed("#", PureHits(ids, cache.simple_id_rules,
                                             cache.complex_id_rules))
            group3 == Buckets(classes, cache.simple_class_rules, cache.complex_class_rules)
                        \o Buckets(ids, cache.simple_id_rules, cache.complex_id_rules)
            all == group1 \o group2 \o group3
        IN  /\ (ret.result.val = None) <=> (all = <<>>)
            /\ all # <<>> => ret.result = Ok(Some(JoinComma(all) \o DISPLAY_NONE))

\* a page whose tokens hit all three groups, the complex one with two selectors
C9_Witness ==
    /\ ret.op = "class_id_stylesheet"
    /\ ret.result.val # None
    /\ PureHits(ret.args[1], cache.simple_class_rules, cache.complex_class_rules) # <<>>
    /\ PureHits(ret.args[2], cache.simple_id_rules, cache.complex_id_rules) # <<>>
    /\ Len(Buckets(ret.args[1], cache.simple_class_rules, cache.complex_class_rules)) >= 2

-----------------------------------------------------------------------------
-----------------------------------------------------------------------------
(* The rule parser (src/filters/cosmetic.rs).                              *)
(*                                                                         *)
(* A line is the sequence of its UTF-8 bytes: an ASCII byte is the         *)
(* one-character string, a byte of a multi-byte character is its value in  *)
(* hex ("C3", "A9" are the two bytes of e-acute).  Rust indexes a str by   *)
(* byte offset and aborts when an offset is past the end or inside a       *)
(* character; chars() counts characters.  Both are kept apart here.        *)

\* first and following bytes of the characters drawn: U+00E9, U+0434, U+0663
LEAD == {"C3", "D0", "D9"}
CONT == {"A9", "B4", "A3"}

LOWER == {"a", "b", "c", "d", "e", "f", "g", "h", "i", "j", "k", "l", "m",
          "n", "o", "p", "q", "r", "s", "t", "u", "v", "w", "x", "y", "z"}
UPPER == {"A", "B", "C", "D", "E", "F", "G", "H", "I", "J", "K", "L", "M",
          "N", "O", "P", "Q", "R", "S", "T", "U", "V", "W", "X", "Y", "Z"}
DIGITS == {"0", "1", "2", "3", "4", "5", "6", "7", "8", "9"}

is_ascii(s) == \A i \in 1..Len(s) : s[i] \notin LEAD \cup CONT

is_char_boundary(s, i) == i = 0 \/ i = Len(s) \/ (i < Len(s) /\ s[i + 1] \notin CONT)

\* whether s[a..b] is a slice Rust accepts; any other slice aborts
sliceable(s, a, b) == a <= b /\ b <= Len(s) /\ is_char_boundary(s, a) /\ is_char_boundary(s, b)

\* s[a..b], offsets counted from 0
slice(s, a, b) == SubSeq(s, a + 1, b)

\* s[a..]
from(s, a) == slice(s, a, Len(s))

starts_with(s, p) == Len(p) <= Len(s) /\ SubSeq(s, 1, Len(p)) = p

ends_with(s, p) == Len(p) <= Len(s) /\ SubSeq(s, Len(s) - Len(p) + 1, Len(s)) = p

\* the offset of the first byte c of s
find(s, c) ==
    IF \E i \in 1..Len(s) : s[i] = c
    THEN Some((CHOOSE i \in 1..Len(s) : s[i] = c /\ \A j \in 1..(i - 1) : s[j] # c) - 1)
    ELSE None

\* the characters of s, each standing as its first byte
chars(s) == SelectSeq(s, LAMBDA b : b \notin CONT)

\* Iterator::nth, counted from 0
nth(cs, n) == IF n < Len(cs) THEN Some(cs[n + 1]) ELSE None

RECURSIVE split(_, _)
split(s, c) ==
    IF is_none(find(s, c)) THEN <<s>>
    ELSE <<slice(s, 0, unwrap(find(s, c)))>> \o split(from(s, unwrap(find(s, c)) + 1), c)

RECURSIVE join(_, _)
join(texts, sep) ==
    IF texts = <<>> THEN <<>>
    ELSE IF Len(texts) = 1 THEN texts[1]
    ELSE texts[1] \o sep \o join(Tail(texts), sep)

\* Err(CosmeticFilterError), the error by its name
Err(e) == [status |-> "err", val |-> e]

(* idna::uts46::to_ascii under use_std3_ascii_rules and verify_dns_length: *)
(* a name with an ASCII byte other than a letter, a digit, "-" or ".", or  *)
(* with an empty label, is refused; a label with a non-ASCII character     *)
(* becomes "xn--", its ASCII bytes and the code of the others.  Case       *)
(* folding is left out: the names drawn are lower-case.                    *)

encode_label(label) ==
    IF is_ascii(label) THEN label
    ELSE LET basic == SelectSeq(label, LAMBDA b : b \notin LEAD \cup CONT)
             leads == SelectSeq(label, LAMBDA b : b \in LEAD)
             punycode(lead) == IF lead = "C3" THEN <<"9", "c", "a">> ELSE <<"d", "1", "a">>
         IN  <<"x", "n", "-", "-">> \o basic \o (IF basic = <<>> THEN <<>> ELSE <<"-">>)
                 \o Concat([i \in 1..Len(leads) |-> punycode(leads[i])])

to_ascii(part) ==
    LET labels == split(part, ".")
        std3 == LOWER \cup UPPER \cup DIGITS \cup {"-", "."}
    IN  IF \/ \E i \in 1..Len(part) : part[i] \notin std3 \cup LEAD \cup CONT
           \/ \E i \in 1..Len(labels) : labels[i] = <<>>
        THEN None
        ELSE Some(join([i \in 1..Len(labels) |-> encode_label(labels[i])], <<".">>))

(* css_validation: the validator is the selectors crate; what is kept of   *)
(* it is that a selector is not empty, starts as a selector starts, is     *)
(* made of selector bytes, does not stop on a combinator or a colon, and   *)
(* has its brackets and parentheses balanced.                              *)

TOKEN == {"-", "_"} \cup DIGITS \cup UPPER \cup LOWER

RECURSIVE balanced(_, _, _, _)
balanced(s, open, close, depth) ==
    IF s = <<>> THEN depth = 0
    ELSE IF Head(s) = open THEN balanced(Tail(s), open, close, depth + 1)
    ELSE IF Head(s) = close THEN depth > 0 /\ balanced(Tail(s), open, close, depth - 1)
    ELSE balanced(Tail(s), open, close, depth)

is_valid_css_selector(selector) ==
    LET selector_bytes ==
            TOKEN \cup LEAD \cup CONT
                  \cup {".", "#", "[", "]", "=", "^", "*", "\"", " ", ">", "+", "~", ":", "(",
                        ")", ","}
    IN  /\ selector # <<>>
        /\ selector[1] \in LOWER \cup UPPER \cup LEAD \cup {".", "#", "[", "*"}
        /\ \A i \in 1..Len(selector) : selector[i] \in selector_bytes
        /\ selector[Len(selector)]
               \notin {".", "#", " ", ">", "+", "~", ":", ",", "(", "[", "="}
        /\ balanced(selector, "[", "]", 0)
        /\ balanced(selector, "(", ")", 0)

is_valid_css_style(style) == TRUE

(* is_simple_selector: Ok(TRUE), Ok(FALSE), or the abort of unwrap() when  *)
(* the character index i + 1 is past the last character (i is compared     *)
(* with the byte length)                                                   *)
is_simple_selector(selector) ==
    LET cs == chars(selector)
        stops == {p \in 2..Len(cs) : cs[p] \notin TOKEN}
    IN  IF stops = {} THEN Ok(TRUE)
        ELSE LET p == CHOOSE q \in stops : \A r \in stops : q <= r
                 i == p - 1
                 c == cs[p]
                 next == nth(cs, i + 1)
             IN  IF i < Len(selector) - 1
                 THEN IF is_none(next) THEN [status |-> "panic", val |-> FALSE]
                      ELSE Ok(c = "[" \/ (c = " " /\ unwrap(next) \in {">", "+", "~", ".", "#"}))
                 ELSE Ok(FALSE)

is_simple_href_selector(selector, start) ==
    \/ starts_with(from(selector, start), <<"h", "r", "e", "f", "^", "=", "\"">>)
    \/ starts_with(from(selector, start), <<"h", "r", "e", "f", "*", "=", "\"">>)
    \/ starts_with(from(selector, start), <<"h", "r", "e", "f", "=", "\"">>)

(* lines 60-135: the scope list *)

EmptyScope ==
    [unicode |-> FALSE, entities |-> <<>>, not_entities |-> <<>>,
     hostnames |-> <<>>, not_hostnames |-> <<>>]

RECURSIVE scope_parts(_, _)
\* lines 67-102: one hash per part, pushed in the order of the line
scope_parts(parts, acc) ==
    IF parts = <<>> THEN Ok(acc)
    ELSE LET part == Head(parts)
             converted == IF is_ascii(part) THEN Some(part) ELSE to_ascii(part)
         IN  IF is_none(converted) THEN Err("PunycodeError")
             ELSE LET hostname == unwrap(converted)
                      negation == starts_with(hostname, <<"~">>)
                      entity == ends_with(hostname, <<".", "*">>)
                      start == IF negation THEN 1 ELSE 0
                      end == IF entity THEN Len(hostname) - 2 ELSE Len(hostname)
                      hash == fast_hash(slice(hostname, start, end))
                      seen == [acc EXCEPT !.unicode = @ \/ ~is_ascii(part)]
                  IN  IF ~sliceable(hostname, start, end) THEN Panic
                      ELSE scope_parts(Tail(parts),
                             IF negation /\ entity
                             THEN [seen EXCEPT !.not_entities = Append(@, hash)]
                             ELSE IF negation
                             THEN [seen EXCEPT !.not_hostnames = Append(@, hash)]
                             ELSE IF entity
                             THEN [seen EXCEPT !.entities = Append(@, hash)]
                             ELSE [seen EXCEPT !.hostnames = Append(@, hash)])

\* lines 104-130: a vector that received a hash is sorted and kept, an empty one is absent
sorted_or_none(vec) == IF vec # <<>> THEN Some(Sorted(vec)) ELSE None

(* lines 137-180: the body *)

SCRIPT_PREFIX == <<"s", "c", "r", "i", "p", "t", ":">>
INJECT_PREFIX == <<"i", "n", "j", "e", "c", "t", "(">>
JS_PREFIX == <<"+", "j", "s", "(">>
STYLE_PREFIX == <<"s", "t", "y", "l", "e">>

UNSUPPORTED ==
    {<<"-", "a", "b", "p", "-">>, <<"c", "o", "n", "t", "a", "i", "n", "s">>, <<"h", "a", "s">>, <<"i", "f">>, <<"i", "f", "-", "n", "o", "t">>, <<"m", "a", "t", "c", "h", "e", "s", "-", "c", "s", "s">>,
     <<"m", "a", "t", "c", "h", "e", "s", "-", "c", "s", "s", "-", "a", "f", "t", "e", "r">>, <<"m", "a", "t", "c", "h", "e", "s", "-", "c", "s", "s", "-", "b", "e", "f", "o", "r", "e">>, <<"p", "r", "o", "p", "e", "r", "t", "i", "e", "s">>, <<"s", "u", "b", "j", "e", "c", "t">>, <<"x", "p", "a", "t", "h">>}

Body(inject, selector, style) == [inject |-> inject, selector |-> selector, style |-> style]

\* only the first colon is looked at
scan_first_colon(line, suffix_start_index, index_after_colon, selector, style) ==
    LET found == find(from(line, index_after_colon), ":") IN
    IF is_none(found) THEN Ok(Body(FALSE, selector, style))
    ELSE IF \E keyword \in UNSUPPORTED :
                starts_with(from(line, unwrap(found) + index_after_colon + 1), keyword)
    THEN Err("UnsupportedSyntax")
    ELSE Ok(Body(FALSE, selector, style))

RECURSIVE scan_colons(_, _, _, _, _)
\* lines 154-179: every colon from index_after_colon on, in order
scan_colons(line, suffix_start_index, index_after_colon, selector, style) ==
    LET found == find(from(line, index_after_colon), ":") IN
    IF is_none(found) THEN Ok(Body(FALSE, selector, style))
    ELSE LET colon_index == unwrap(found) + index_after_colon
             after == colon_index + 1
         IN  IF starts_with(from(line, after), STYLE_PREFIX)
             THEN IF /\ nth(chars(line), after + 5) = Some("(")
                     /\ nth(chars(line), Len(line) - 1) = Some(")")
                  THEN IF sliceable(line, after + 6, Len(line) - 1)
                       THEN scan_colons(line, suffix_start_index, after,
                                        slice(line, suffix_start_index, colon_index),
                                        Some(slice(line, after + 6, Len(line) - 1)))
                       ELSE Panic
                  ELSE Err("InvalidStyleSpecifier")
             ELSE IF \E keyword \in UNSUPPORTED : starts_with(from(line, after), keyword)
             THEN Err("UnsupportedSyntax")
             ELSE scan_colons(line, suffix_start_index, after, selector, style)

parse_body(line, suffix_start_index) ==
    IF /\ Len(line) - suffix_start_index > 7
       /\ starts_with(from(line, suffix_start_index), SCRIPT_PREFIX)
    THEN LET script_method_index == suffix_start_index + 7
             inject == starts_with(from(line, script_method_index), INJECT_PREFIX)
             script_selector_index_start ==
                 IF inject THEN script_method_index + 7 ELSE script_method_index
             script_selector_index_end == Len(line) - 1
         IN  IF sliceable(line, script_selector_index_start, script_selector_index_end)
             THEN Ok(Body(inject,
                          slice(line, script_selector_index_start, script_selector_index_end),
                          None))
             ELSE Panic
    ELSE IF /\ Len(line) - suffix_start_index > 4
            /\ starts_with(from(line, suffix_start_index), JS_PREFIX)
    THEN IF sliceable(line, suffix_start_index + 4, Len(line) - 1)
         THEN Ok(Body(TRUE, slice(line, suffix_start_index + 4, Len(line) - 1), None))
         ELSE Panic
    ELSE scan_colons(line, suffix_start_index, suffix_start_index,
                     from(line, suffix_start_index), None)

(* lines 194-204: the fast-path flag of a selector, or the abort of        *)
(* is_simple_selector                                                      *)
classify(selector) ==
    LET simple == is_simple_selector(selector) IN
    IF starts_with(selector, <<".">>) /\ simple.status = "panic" THEN Panic
    ELSE IF starts_with(selector, <<".">>) /\ simple.val THEN Ok({IS_CLASS_SELECTOR})
    ELSE IF starts_with(selector, <<"#">>) /\ simple.status = "panic" THEN Panic
    ELSE IF starts_with(selector, <<"#">>) /\ simple.val THEN Ok({IS_ID_SELECTOR})
    ELSE IF starts_with(selector, <<"a", "[", "h">>) /\ is_simple_href_selector(selector, 2)
    THEN Ok({IS_HREF_SELECTOR})
    ELSE IF starts_with(selector, <<"[", "h">>) /\ is_simple_href_selector(selector, 1)
    THEN Ok({IS_HREF_SELECTOR})
    ELSE Ok({})

flags_of_any_body(body) == classify(body.selector)

\* line 194: a scriptlet rule is not classified
flags_of(body) == IF body.inject THEN Ok({}) ELSE classify(body.selector)

\* lines 182-219: validation, the flags, and the rule
finish(line, debug, unhide, scope, body) ==
    LET selector == body.selector
        flags == flags_of(body)
        mask == (IF unhide THEN {UNHIDE} ELSE {})
                    \cup (IF scope.unicode \/ ~is_ascii(selector) THEN {IS_UNICODE} ELSE {})
                    \cup (IF body.inject THEN {SCRIPT_INJECT} ELSE {})
                    \cup flags.val
    IN  IF ~body.inject /\ ~is_valid_css_selector(selector) THEN Err("InvalidCssSelector")
        ELSE IF is_some(body.style) /\ ~is_valid_css_style(unwrap(body.style))
        THEN Err("InvalidCssStyle")
        ELSE IF flags.status = "panic" THEN Panic
        ELSE Ok([raw_line |-> IF debug THEN Some(line) ELSE None,
                 rule |-> CosmeticFilter(selector, body.style, mask, None,
                                         sorted_or_none(scope.hostnames),
                                         sorted_or_none(scope.entities),
                                         sorted_or_none(scope.not_hostnames),
                                         sorted_or_none(scope.not_entities))])

\* CosmeticFilter::parse: Ok(rule), Err(error), or Panic where the code aborts
parse(line, debug) ==
    LET sharp == find(line, "#") IN
    IF is_none(sharp) THEN Err("MissingSharp")
    ELSE LET sharp_index == unwrap(sharp)
             after_sharp_index == sharp_index + 1
             unhide == starts_with(from(line, after_sharp_index), <<"@">>)
             suffix_start_index ==
                 IF unhide THEN after_sharp_index + 2 ELSE after_sharp_index + 1
             scope == IF sharp_index > 0
                      THEN scope_parts(split(slice(line, 0, sharp_index), ","), EmptyScope)
                      ELSE Ok(EmptyScope)
         IN  IF scope.status # "ok" THEN scope
             ELSE IF ~sliceable(line, suffix_start_index, Len(line)) THEN Panic
             ELSE LET body == parse_body(line, suffix_start_index) IN
                  IF body.status # "ok" THEN body
                  ELSE finish(line, debug, unhide, scope.val, body.val)

-----------------------------------------------------------------------------
(* CosmeticFilter::parse on its own, over lines put together from a scope  *)
(* list, a separator and a body                                            *)

\* a, b.*, ~a, ~b.*, e-acute.a (converted by IDNA), e-acute_ (refused by IDNA)
HostSpecs == {<<"a">>, <<"b", ".", "*">>, <<"~", "a">>, <<"~", "b", ".", "*">>, <<"C3", "A9", ".", "a">>, <<"C3", "A9", "_">>}

\* number of comma-separated parts of the scope list
MaxParts == 2

\* none, "#", "#@", and the two separators of the grammar
Seps == {<<>>, <<"#">>, <<"#", "@">>, <<"#", "#">>, <<"#", "@", "#">>}

Bodies ==
    {<<>>, <<"!">>,
     \* selectors: class, id, element, href, attribute, descendant, non-ASCII
     <<".", "a">>, <<"#", "i">>, <<"p">>, <<"a", "[", "h", "r", "e", "f", "=", "\"", "x", "\"", "]">>, <<"[", "h", "r", "e", "f", "=", "\"", "x", "\"", "]">>, <<"[", "h", "]">>, <<".", "a", "[", "x", "]">>,
     <<".", "a", " ", ">", "p">>, <<".", "a", " ", "p">>, <<"#", "i", "[", "x", "]">>, <<"p", "C3", "A9">>, <<".", "C3", "A9">>, <<"C3", "A9">>,
     \* scriptlets
     <<"+", "j", "s", "(", "x", ")">>, <<"+", "j", "s", "(", ".", "a", ")">>, <<"+", "j", "s", "(">>, <<"+", "j", "s", "(", "x", "C3", "A9">>, <<"+", "j", "s", "(", "x", ":", "h", "a", "s", ")">>,
     <<"s", "c", "r", "i", "p", "t", ":", "i", "n", "j", "e", "c", "t", "(", "x", ")">>, <<"s", "c", "r", "i", "p", "t", ":", "i", "n", "j", "e", "c", "t", "(">>, <<"s", "c", "r", "i", "p", "t", ":", "x", ")">>, <<"s", "c", "r", "i", "p", "t", ":", "!", ")">>, <<"s", "c", "r", "i", "p", "t", ":">>,
     \* styles
     <<"p", ":", "s", "t", "y", "l", "e", "(", "x", ")">>, <<"p", ":", "s", "t", "y", "l", "e", "(", "c", ":", "d", ")">>, <<"p", ":", "s", "t", "y", "l", "e", "(", ")">>, <<".", "a", ":", "s", "t", "y", "l", "e", "(", "x", ")">>, <<"!", ":", "s", "t", "y", "l", "e", "(", "x", ")">>,
     <<"p", "C3", "A9", ":", "s", "t", "y", "l", "e", "(", "x", ")">>, <<"p", ":", "s", "t", "y", "l", "e", "(", "a", ":", "h", "a", "s", ")">>, <<"p", ":", "s", "t", "y", "l", "e">>, <<"p", ":", "s", "t", "y", "l", "e", "(", "x">>, <<"p", ":", "s", "t", "y", "l", "e", "x", ")">>,
     \* pseudo-classes
     <<"p", ":", "-", "a", "b", "p", "-", "x">>, <<"p", ":", "c", "o", "n", "t", "a", "i", "n", "s">>, <<"p", ":", "h", "a", "s">>, <<"p", ":", "i", "f">>, <<"p", ":", "i", "f", "-", "n", "o", "t">>, <<"p", ":", "m", "a", "t", "c", "h", "e", "s", "-", "c", "s", "s">>,
     <<"p", ":", "m", "a", "t", "c", "h", "e", "s", "-", "c", "s", "s", "-", "a", "f", "t", "e", "r">>, <<"p", ":", "m", "a", "t", "c", "h", "e", "s", "-", "c", "s", "s", "-", "b", "e", "f", "o", "r", "e">>, <<"p", ":", "p", "r", "o", "p", "e", "r", "t", "i", "e", "s">>, <<"p", ":", "s", "u", "b", "j", "e", "c", "t">>,
     <<"p", ":", "x", "p", "a", "t", "h">>, <<"p", ":", "n", "o", "t", ":", "h", "a", "s">>, <<"p", "C3", "A9", ":", "i", "f">>, <<"p", ":", "s", "t", "y", "l", "e", "x", ":", "h", "a", "s">>, <<"p", ":", "n", "o", "t">>}

\* the line of an input: the parts of the scope joined by commas, the separator, the body
LineOf(in) == join(in.scope, <<",">>) \o in.sep \o in.body

ParseInit ==
    /\ parse_in \in [scope : SeqsUpTo(HostSpecs, MaxParts), sep : Seps, body : Bodies,
                     debug : BOOLEAN]
    /\ parse_out = None
    /\ IdleCache
    /\ IdleSheet
    /\ IdleReaders
    /\ IdleScript

Parse ==
    /\ is_none(parse_out)
    /\ parse_out' = Some(parse(LineOf(parse_in), parse_in.debug))
    /\ UNCHANGED <<parse_in, cacheVars, sheetVars, concVars, scriptVars>>

ParseNext == Parse

ParseSpec == ParseInit /\ [][ParseNext]_vars

-----------------------------------------------------------------------------
(* Properties of the rule parser *)

ParseErrors ==
    {"MissingSharp", "PunycodeError", "InvalidStyleSpecifier", "UnsupportedSyntax",
     "InvalidCssSelector", "InvalidCssStyle"}

\* parse has been called, and what it returned
Parsed == is_some(parse_out)
ParseOut == unwrap(parse_out)
Accepted == Parsed /\ ParseOut.status = "ok"
Rejected(e) == Parsed /\ ParseOut.status = "err" /\ ParseOut.val = e
ParsedRule == ParseOut.val.rule

\* the line has one of the two separators of the grammar after its scope list
RuleLine == parse_in.sep \in {<<"#", "#">>, <<"#", "@", "#">>}

(* C11: parse is total: whatever the line (a line that ends right after    *)
(* its first "#" or after "#@", a line shorter than the separator, a line  *)
(* with multi-byte characters), the call returns a rule or one of the six  *)
(* errors, and never aborts.                                               *)
C11_ParseIsTotal ==
    Parsed => \/ ParseOut.status = "ok"
              \/ ParseOut.status = "err" /\ ParseOut.val \in ParseErrors

ScopeFields == {"hostnames", "entities", "not_hostnames", "not_entities"}

StrictlyAscending(v) == \A i, j \in 1..Len(v) : i < j => v[i] < v[j]

(* C12: in every accepted rule, each scope set that is present is not      *)
(* empty, is sorted ascending and holds no hash twice, also when the line  *)
(* names the same hostname or entity more than once.                       *)
C12_ScopeSetsSortedWithoutDuplicates ==
    Accepted =>
        \A f \in ScopeFields :
            is_some(ParsedRule[f]) =>
                /\ unwrap(ParsedRule[f]) # <<>>
                /\ StrictlyAscending(unwrap(ParsedRule[f]))

FastPathFlags == {IS_CLASS_SELECTOR, IS_ID_SELECTOR, IS_HREF_SELECTOR}

(* C13: an accepted rule carries at most one of IS_CLASS_SELECTOR,         *)
(* IS_ID_SELECTOR and IS_HREF_SELECTOR, and none of them when it carries   *)
(* SCRIPT_INJECT.                                                          *)
C13_AtMostOneFastPathFlag ==
    Accepted =>
        /\ Cardinality(ParsedRule.mask \cap FastPathFlags) <= 1
        /\ SCRIPT_INJECT \in ParsedRule.mask => ParsedRule.mask \cap FastPathFlags = {}

\* a scriptlet rule whose payload reads as a class selector was accepted, unflagged
C13_Witness ==
    /\ Accepted
    /\ parse_in.body = <<"+", "j", "s", "(", ".", "a", ")">>
    /\ ParsedRule.selector = <<".", "a">>
    /\ ParsedRule.mask \cap FastPathFlags = {}

\* the body starts as a scriptlet starts
ScriptBody == starts_with(parse_in.body, SCRIPT_PREFIX)
JsBody == starts_with(parse_in.body, JS_PREFIX)

\* what follows "script:inject(" in the body, without the closing byte of the line
InjectPayload == slice(parse_in.body, 14, Len(parse_in.body) - 1)

(* C14: a rule line whose body begins with "script:" gets SCRIPT_INJECT,   *)
(* whether or not "inject(" follows; when "inject(" follows, the selector  *)
(* is the payload after it; the CSS selector validation is not applied.    *)
C14_ScriptBodiesAreInjected ==
    Parsed /\ RuleLine /\ ScriptBody =>
        /\ ~Rejected("InvalidCssSelector")
        /\ Accepted =>
              /\ SCRIPT_INJECT \in ParsedRule.mask
              /\ starts_with(from(parse_in.body, 7), INJECT_PREFIX) =>
                    ParsedRule.selector = InjectPayload

\* the offsets (from 1) of the colons of text that an unsupported keyword follows
KeywordColons(text) ==
    {i \in 1..Len(text) :
        text[i] = ":" /\ \E keyword \in UNSUPPORTED : starts_with(from(text, i), keyword)}

\* the offsets (from 1) of the colons of text that "style" follows
StyleColons(text) ==
    {i \in 1..Len(text) : text[i] = ":" /\ starts_with(from(text, i), STYLE_PREFIX)}

Least(S) == CHOOSE i \in S : \A j \in S : i <= j

\* a colon before the first keyword colon of the body introduces a style
StyleBeforeKeyword ==
    \E i \in StyleColons(parse_in.body) : i < Least(KeywordColons(parse_in.body))

\* a part of the scope list is refused by the IDNA conversion
ScopeRefused ==
    \E i \in 1..Len(parse_in.scope) :
        ~is_ascii(parse_in.scope[i]) /\ is_none(to_ascii(parse_in.scope[i]))

UnsupportedLine ==
    RuleLine /\ ~ScriptBody /\ ~JsBody /\ KeywordColons(parse_in.body) # {}

(* C15: a rule line that is not a scriptlet and has, in its body, a colon  *)
(* immediately followed by one of the eleven unsupported keywords is       *)
(* answered with UnsupportedSyntax, or with InvalidStyleSpecifier when an  *)
(* earlier colon of the body introduces a style; it is never accepted.     *)
C15_UnsupportedKeywordRejected ==
    Parsed /\ UnsupportedLine =>
        \/ Rejected("UnsupportedSyntax")
        \/ Rejected("InvalidStyleSpecifier") /\ StyleBeforeKeyword

(* C15, amended: ... or with PunycodeError when a part of the scope list   *)
(* is refused by the IDNA conversion, which is tried before the body is    *)
(* read.                                                                   *)
C15_UnsupportedKeywordOrScopeRejected ==
    Parsed /\ UnsupportedLine =>
        IF ScopeRefused THEN Rejected("PunycodeError")
        ELSE \/ Rejected("UnsupportedSyntax")
             \/ Rejected("InvalidStyleSpecifier") /\ StyleBeforeKeyword

\* the keyword follows the second colon of the body of a scoped line
C15_Witness ==
    /\ Parsed
    /\ UnsupportedLine
    /\ parse_in.body = <<"p", ":", "n", "o", "t", ":", "h", "a", "s">>
    /\ parse_in.scope # <<>>
    /\ Rejected("UnsupportedSyntax")

StyleOpener == <<":", "s", "t", "y", "l", "e", "(">>

\* the offsets (from 1) at which ":style(" starts in text
Openers(text) == {i \in 1..Len(text) : starts_with(from(text, i - 1), StyleOpener)}

\* the body reads sel:style(decl): what stands before the first ":style(", and
\* what stands between it and the closing parenthesis that ends the line
StyledBody == Openers(parse_in.body) # {} /\ Last(parse_in.body) = ")"
StyledSel == SubSeq(parse_in.body, 1, Least(Openers(parse_in.body)) - 1)
StyledDecl ==
    SubSeq(parse_in.body, Least(Openers(parse_in.body)) + 7, Len(parse_in.body) - 1)

\* the first ":style" of the body lacks its "(" or the line lacks its final ")"
MalformedStyle ==
    /\ StyleColons(parse_in.body) # {}
    /\ KeywordColons(parse_in.body) # {} =>
          Least(StyleColons(parse_in.body)) < Least(KeywordColons(parse_in.body))
    /\ \/ Least(StyleColons(parse_in.body)) \notin Openers(parse_in.body)
       \/ Last(parse_in.body) # ")"

(* C16: a rule line of the form [scope]##sel:style(decl) that ends with    *)
(* ")" and whose sel is a valid selector yields a rule with selector sel   *)
(* and style decl, whatever decl and the scope are (non-ASCII scope or     *)
(* selector, colons inside decl); a ":style" that "(" does not follow, or  *)
(* a line that does not end with ")", yields InvalidStyleSpecifier.        *)
C16_StyledRuleSplitsAtStyle ==
    Parsed /\ RuleLine /\ ~ScopeRefused /\ ~ScriptBody /\ ~JsBody =>
        /\ StyledBody /\ is_valid_css_selector(StyledSel) =>
              /\ Accepted
              /\ ParsedRule.selector = StyledSel
              /\ ParsedRule.style = Some(StyledDecl)
        /\ MalformedStyle => Rejected("InvalidStyleSpecifier")

-----------------------------------------------------------------------------
(* Scriptlet templates and the catalog (src/scriptlets.rs) *)

Literal(literal) == [kind |-> "Literal", literal |-> literal, index |-> 0]
Argument(index) == [kind |-> "Argument", literal |-> <<>>, index |-> index]

\* TEMPLATE_ARGUMENT_RE at byte offset i: the length of the match of \{\{\d\}\}, 0 if
\* none.  \d is any Unicode decimal digit, so the digit can take two bytes.
match_at(data, i) ==
    IF /\ starts_with(from(data, i), <<"{", "{">>)
       /\ i + 5 <= Len(data)
       /\ data[i + 3] \in DIGITS
       /\ starts_with(from(data, i + 3), <<"}", "}">>)
    THEN 5
    ELSE IF /\ starts_with(from(data, i), <<"{", "{">>)
            /\ i + 6 <= Len(data)
            /\ data[i + 3] = "D9"
            /\ data[i + 4] = "A3"
            /\ starts_with(from(data, i + 4), <<"}", "}">>)
    THEN 6
    ELSE 0

\* captures_iter: the offset of the leftmost match at or after offset start
next_capture(data, start) ==
    IF \E i \in start..Len(data) : match_at(data, i) > 0
    THEN Some(CHOOSE i \in start..Len(data) :
                  match_at(data, i) > 0 /\ \A j \in start..(i - 1) : match_at(data, j) = 0)
    ELSE None

\* str::parse::<usize> of one ASCII digit
digit_value(d) ==
    CASE d = "0" -> 0 [] d = "1" -> 1 [] d = "2" -> 2 [] d = "3" -> 3 [] d = "4" -> 4
      [] d = "5" -> 5 [] d = "6" -> 6 [] d = "7" -> 7 [] d = "8" -> 8 [] OTHER -> 9

RECURSIVE template_parts(_, _, _, _)
\* lines 65-89: one round per capture, then the trailing literal
template_parts(data, last_end_index, parts, required_args) ==
    LET cap == next_capture(data, last_end_index) IN
    IF is_none(cap)
    THEN Ok([parts |-> IF last_end_index # Len(data)
                       THEN Append(parts, Literal(from(data, last_end_index)))
                       ELSE parts,
             required_args |-> required_args])
    ELSE LET start == unwrap(cap)
             before == IF last_end_index # start
                       THEN Append(parts, Literal(slice(data, last_end_index, start)))
                       ELSE parts
             argnum == digit_value(data[start + 3])
         IN  IF ~sliceable(data, start + 2, start + 3) THEN Panic
             ELSE template_parts(data, start + match_at(data, start),
                                 Append(before, Argument(argnum)),
                                 IF argnum > required_args THEN argnum ELSE required_args)

\* Scriptlet::parse
Scriptlet_parse(data) == template_parts(data, 0, <<>>, 0)

\* ScriptletPart::patched: args[index - 1] aborts when index is 0 or past the list
patched(part, args) ==
    IF part.kind = "Literal" THEN Ok(part.literal)
    ELSE IF part.index >= 1 /\ part.index <= Len(args) THEN Ok(args[part.index])
    ELSE Panic

\* Scriptlet::patch
patch(self, args) ==
    IF Len(args) # self.required_args THEN Err("WrongNumberOfArguments")
    ELSE IF \E i \in 1..Len(self.parts) : patched(self.parts[i], args).status = "panic"
    THEN Panic
    ELSE Ok(Concat([i \in 1..Len(self.parts) |-> patched(self.parts[i], args).val]))

without_js_extension(scriptlet_name) ==
    IF ends_with(scriptlet_name, <<".", "j", "s">>)
    THEN slice(scriptlet_name, 0, Len(scriptlet_name) - 3)
    ELSE scriptlet_name

\* str::trim: what stands between the first and the last byte that is not a space
trim(s) ==
    LET kept == {i \in 1..Len(s) : s[i] # " "} IN
    IF kept = {} THEN <<>>
    ELSE SubSeq(s, CHOOSE i \in kept : \A j \in kept : i <= j,
                   CHOOSE i \in kept : \A j \in kept : j <= i)

\* ESCAPE_SCRIPTLET_ARG_RE.replace_all(s, ""): every backslash and quote is erased
escape(s) == SelectSeq(s, LAMBDA b : b \notin {"\\", "'", "\""})

RECURSIVE split_args(_, _, _, _)
\* lines 201-215: one round per comma found, then the last element
split_args(args, find_start, after_last_delim, args_vec) ==
    LET found == find(from(args, find_start), ",") IN
    IF is_none(found)
    THEN Ok(IF after_last_delim # Len(args)
            THEN Append(args_vec, escape(trim(from(args, after_last_delim))))
            ELSE args_vec)
    ELSE LET comma_loc == find_start + unwrap(found) IN
         IF comma_loc = 0 \/ ~sliceable(args, comma_loc - 1, comma_loc) THEN Panic
         ELSE IF slice(args, comma_loc - 1, comma_loc) = <<"\\">>
         THEN split_args(args, comma_loc + 1, after_last_delim, args_vec)
         ELSE split_args(args, comma_loc + 1, comma_loc + 1,
                         Append(args_vec, escape(trim(slice(args, after_last_delim, comma_loc)))))

\* parse_scriptlet_args: Ok(list), or Panic where the slice before a comma aborts
parse_scriptlet_args(args) == split_args(args, 0, 0, <<>>)

\* Scriptlets::get_scriptlet
get_scriptlet(self, scriptlet_args) ==
    LET parsed == parse_scriptlet_args(scriptlet_args) IN
    IF parsed.status = "panic" THEN Panic
    ELSE IF parsed.val = <<>> THEN Err("MissingScriptletName")
    ELSE LET scriptlet_name == without_js_extension(parsed.val[1])
             args == Tail(parsed.val)
             actual_name == IF scriptlet_name \in DOMAIN self.aliases
                            THEN self.aliases[scriptlet_name]
                            ELSE scriptlet_name
         IN  IF actual_name \notin DOMAIN self.scriptlets THEN Err("NoMatchingScriptlet")
             ELSE patch(self.scriptlets[actual_name], args)

-----------------------------------------------------------------------------
(* The four scriptlet operations on their own, each applied once to an     *)
(* input drawn from the sets below                                         *)

\* number of pieces of a template text
MaxPieces == 3

\* template texts are put together from pieces: literals, placeholders, {{0}}, the
\* two-digit {{10}}, and a placeholder with the digit U+0663
Templates ==
    {Concat(pieces) :
        pieces \in SeqsUpTo({<<"x">>, <<"{">>, <<"{", "{", "1", "}", "}">>, <<"{", "{", "2", "}", "}">>, <<"{", "{", "9", "}", "}">>, <<"{", "{", "0", "}", "}">>,
                             <<"{", "{", "1", "0", "}", "}">>, <<"{", "{", "D9", "A3", "}", "}">>}, MaxPieces)}

\* number of arguments handed to patch, or following the name in an invocation
MaxArgs == 2

ArgLists == SeqsUpTo({<<"u">>, <<"v">>}, MaxArgs)

\* number of pieces of an argument string
MaxArgPieces == 4

\* argument strings are put together from a letter, the comma, the backslash, the
\* space, the quotes and a two-byte character
ArgStrings ==
    {Concat(pieces) :
        pieces \in SeqsUpTo({<<"a">>, <<",">>, <<"\\">>, <<" ">>, <<"'">>, <<"\"">>, <<"C3", "A9">>}, MaxArgPieces)}

\* the catalog parse_template_file builds from the resources a.js (alias al.js),
\* nop.js and z.js
CatalogAlert ==
    [scriptlets |-> (<<"a">> :> Scriptlet_parse(<<"a", "(", "{", "{", "1", "}", "}", ")">>).val)
                        @@ (<<"n", "o", "p">> :> Scriptlet_parse(<<"n", "(", ")">>).val)
                        @@ (<<"z">> :> Scriptlet_parse(<<"z", "{", "{", "0", "}", "}">>).val),
     aliases |-> (<<"a", "l">> :> <<"a">>)]

\* ... and from the resources y.js (alias a.js) and a.js: the alias has the name of
\* a resource
CatalogShadow ==
    [scriptlets |-> (<<"y">> :> Scriptlet_parse(<<"y", "(", "{", "{", "1", "}", "}", ",", "{", "{", "2", "}", "}", ")">>).val)
                        @@ (<<"a">> :> Scriptlet_parse(<<"a", "(", "{", "{", "1", "}", "}", ")">>).val),
     aliases |-> (<<"a">> :> <<"y">>)]

Names ==
    {<<>>, <<".", "j", "s">>, <<"a">>, <<"a", ".", "j", "s">>, <<"a", "l">>, <<"a", "l", ".", "j", "s">>, <<"n", "o", "p">>, <<"n", "o", "p", ".", "j", "s">>, <<"y">>, <<"z">>,
     <<"q">>, <<"a", ".", "j", "s", ".", "j", "s">>}

\* a resource y.js with the alias a.js, and a resource q.js with the alias y.js: an
\* alias has the name of the resource another alias points at
CatalogChain ==
    [scriptlets |-> (<<"y">> :> Scriptlet_parse(<<"y", "(", "{", "{", "1", "}", "}", ",", "{", "{", "2", "}", "}", ")">>).val)
                        @@ (<<"q">> :> Scriptlet_parse(<<"q", "(", ")">>).val),
     aliases |-> (<<"a">> :> <<"y">>) @@ (<<"y">> :> <<"q">>)]

\* the argument string of an invocation: name, arg, arg
Invocation(name, args) == join(<<name>> \o args, <<",", " ">>)

\* ... and Scriptlets::default()
Catalogs ==
    {CatalogAlert, CatalogShadow, CatalogChain, [scriptlets |-> <<>>, aliases |-> <<>>]}

ScriptInit ==
    /\ \/ \E data \in Templates : script_in = [op |-> "parse", data |-> data]
       \/ \E data \in Templates, args \in ArgLists :
              /\ Scriptlet_parse(data).status = "ok"
              /\ script_in = [op |-> "patch", data |-> data,
                              self |-> Scriptlet_parse(data).val, args |-> args]
       \/ \E args \in ArgStrings : script_in = [op |-> "parse_scriptlet_args", args |-> args]
       \/ \E self \in Catalogs, name \in Names, args \in ArgLists :
              script_in = [op |-> "get_scriptlet", self |-> self, name |-> name,
                           args |-> args, scriptlet_args |-> Invocation(name, args)]
    /\ script_out = None
    /\ IdleCache
    /\ IdleSheet
    /\ IdleReaders
    /\ IdleParse

ScriptletParse ==
    /\ is_none(script_out)
    /\ script_in.op = "parse"
    /\ script_out' = Some(Scriptlet_parse(script_in.data))
    /\ UNCHANGED <<script_in, cacheVars, sheetVars, concVars, parseVars>>

Patch ==
    /\ is_none(script_out)
    /\ script_in.op = "patch"
    /\ script_out' = Some(patch(script_in.self, script_in.args))
    /\ UNCHANGED <<script_in, cacheVars, sheetVars, concVars, parseVars>>

ParseScriptletArgs ==
    /\ is_none(script_out)
    /\ script_in.op = "parse_scriptlet_args"
    /\ script_out' = Some(parse_scriptlet_args(script_in.args))
    /\ UNCHANGED <<script_in, cacheVars, sheetVars, concVars, parseVars>>

GetScriptlet ==
    /\ is_none(script_out)
    /\ script_in.op = "get_scriptlet"
    /\ script_out' = Some(get_scriptlet(script_in.self, script_in.scriptlet_args))
    /\ UNCHANGED <<script_in, cacheVars, sheetVars, concVars, parseVars>>

ScriptNext == ScriptletParse \/ Patch \/ ParseScriptletArgs \/ GetScriptlet

ScriptSpec == ScriptInit /\ [][ScriptNext]_vars

-----------------------------------------------------------------------------
(* Properties of the scriptlet operations *)

\* the operation has been applied, and what it returned
Applied(op) == is_some(script_out) /\ script_in.op = op
ScriptOut == unwrap(script_out)

\* the indices of the Argument parts of a part list
ArgumentIndices(parts) ==
    {parts[i].index : i \in {j \in 1..Len(parts) : parts[j].kind = "Argument"}}

Greatest(S) == CHOOSE i \in S : \A j \in S : j <= i

\* the offsets (from 1) at which text has {{d}}, d a single decimal digit 0..9
Placeholders(text) ==
    {i \in 1..Len(text) :
        /\ i + 4 <= Len(text)
        /\ SubSeq(text, i, i + 1) = <<"{", "{">>
        /\ text[i + 2] \in DIGITS
        /\ SubSeq(text, i + 3, i + 4) = <<"}", "}">>}

(* C17: the parts Scriptlet::parse yields have their Argument indices in   *)
(* 1..9, required_args is the largest of them (0 when there is none), and  *)
(* a text without a single-digit placeholder, such as {{10}}, stays one    *)
(* literal.                                                                *)
C17_ArgumentIndicesOneToNine ==
    Applied("parse") /\ ScriptOut.status = "ok" =>
        /\ ArgumentIndices(ScriptOut.val.parts) \subseteq 1..9
        /\ ScriptOut.val.required_args =
               Greatest(ArgumentIndices(ScriptOut.val.parts) \cup {0})
        /\ Placeholders(script_in.data) = {} /\ script_in.data # <<>> =>
               ScriptOut.val.parts = <<Literal(script_in.data)>>

\* what a part stands for once patched
Substituted(part, args) ==
    IF part.kind = "Literal" THEN part.literal
    ELSE IF part.index \in 1..Len(args) THEN args[part.index]
    ELSE <<>>

(* C18: patch answers WrongNumberOfArguments when the number of arguments  *)
(* differs from required_args, and otherwise returns the parts in order,   *)
(* each Argument(i) replaced by args[i-1] and each literal unchanged.      *)
C18_PatchSubstitutesInOrder ==
    Applied("patch") =>
        IF Len(script_in.args) # script_in.self.required_args
        THEN ScriptOut = Err("WrongNumberOfArguments")
        ELSE /\ ScriptOut.status = "ok"
             /\ ScriptOut.val =
                    Concat([i \in 1..Len(script_in.self.parts) |->
                                Substituted(script_in.self.parts[i], script_in.args)])

\* the offsets (from 1) of the commas of text that no backslash immediately precedes
SplitCommas(text) ==
    {i \in 1..Len(text) : text[i] = "," /\ (i = 1 \/ text[i - 1] # "\\")}

RECURSIVE Segments(_)
\* what stands before, between and after those commas, in order
Segments(text) ==
    IF SplitCommas(text) = {} THEN <<text>>
    ELSE <<SubSeq(text, 1, Least(SplitCommas(text)) - 1)>>
             \o Segments(SubSeq(text, Least(SplitCommas(text)) + 1, Len(text)))

\* a segment as a field: outer white space trimmed, then backslashes and quotes removed
Field(segment) == SelectSeq(trim(segment), LAMBDA b : b \notin {"\\", "'", "\""})

ExpectedFields(text) ==
    IF text = <<>> THEN <<>>
    ELSE [i \in 1..Len(Segments(text)) |-> Field(Segments(text)[i])]

(* C19: parse_scriptlet_args splits the argument string at exactly the     *)
(* commas that no backslash immediately precedes, in order; each field is  *)
(* its segment trimmed, with every backslash and quote removed, so that no *)
(* field holds a backslash or a quote; the empty string gives no field.    *)
C19_ArgsSplitAtUnescapedCommas ==
    Applied("parse_scriptlet_args") =>
        /\ ScriptOut.status = "ok"
        /\ ScriptOut.val = ExpectedFields(script_in.args)
        /\ \A i \in 1..Len(ScriptOut.val) :
               Range(ScriptOut.val[i]) \cap {"\\", "'", "\""} = {}

\* the fields of the invocation, as parse_scriptlet_args returns them
InvokedFields == parse_scriptlet_args(script_in.scriptlet_args)

\* the first field without a trailing ".js"
RequestedName ==
    LET first == InvokedFields.val[1] IN
    IF Len(first) >= 3 /\ SubSeq(first, Len(first) - 2, Len(first)) = <<".", "j", "s">>
    THEN SubSeq(first, 1, Len(first) - 3)
    ELSE first

\* the name the alias map gives for it, or the name itself
ResolvedName ==
    IF RequestedName \in DOMAIN script_in.self.aliases
    THEN script_in.self.aliases[RequestedName]
    ELSE RequestedName

SameResult(a, b) == a.status = b.status /\ a.val = b.val

\* error, lookup and patch as the claim words them
LookupAsDocumented ==
    IF InvokedFields.val = <<>> THEN SameResult(ScriptOut, Err("MissingScriptletName"))
    ELSE IF ResolvedName \notin DOMAIN script_in.self.scriptlets
    THEN SameResult(ScriptOut, Err("NoMatchingScriptlet"))
    ELSE SameResult(ScriptOut,
                    patch(script_in.self.scriptlets[ResolvedName], Tail(InvokedFields.val)))

\* the same invocation with ".js" added to a name that lacks it
WithJs ==
    script_in.name # <<>> /\ ~ends_with(script_in.name, <<".", "j", "s">>) =>
        SameResult(ScriptOut,
                   get_scriptlet(script_in.self,
                                 Invocation(script_in.name \o <<".", "j", "s">>, script_in.args)))

\* the same invocation with an alias replaced by the name it stands for
ByAlias ==
    script_in.name \in DOMAIN script_in.self.aliases =>
        SameResult(ScriptOut,
                   get_scriptlet(script_in.self,
                                 Invocation(script_in.self.aliases[script_in.name],
                                            script_in.args)))

(* C20: get_scriptlet takes the first field as the name, without a         *)
(* trailing ".js", and resolves it through the alias map; it answers       *)
(* MissingScriptletName without a first field, NoMatchingScriptlet when    *)
(* the resolved name is not in the catalog, and otherwise the template     *)
(* patched with the remaining fields; so a name with or without ".js", or  *)
(* its alias, gives the same result.                                       *)
C20_LookupByNameOrAlias ==
    Applied("get_scriptlet") =>
        /\ LookupAsDocumented
        /\ WithJs
        /\ ByAlias

ScriptletErrors == {"MissingScriptletName", "NoMatchingScriptlet", "WrongNumberOfArguments"}

(* C21: get_scriptlet is total: for every catalog and every argument       *)
(* string it returns the script text or one of MissingScriptletName,       *)
(* NoMatchingScriptlet, WrongNumberOfArguments, and never aborts.          *)
C21_GetScriptletIsTotal ==
    Applied("get_scriptlet") =>
        \/ ScriptOut.status = "ok"
        \/ ScriptOut.status = "err" /\ ScriptOut.val \in ScriptletErrors

-----------------------------------------------------------------------------
(* Scriptlets::parse_template_file and Scriptlets::add_scriptlet           *)

\* the resource is parsed and registered, but its body stays in the loop state
register_keeping_body(st) ==
    LET s == Scriptlet_parse(st.script)
        name == without_js_extension(unwrap(st.name))
    IN  IF s.status = "panic" THEN Panic
        ELSE Ok([scriptlets |-> (name :> s.val) @@ st.scriptlets,
                 aliases |-> IF <<"a", "l", "i", "a", "s">> \in DOMAIN st.details
                             THEN (without_js_extension(st.details[<<"a", "l", "i", "a", "s">>]) :> name)
                                      @@ st.aliases
                             ELSE st.aliases,
                 name |-> None, details |-> <<>>, script |-> st.script])

\* the line is blank: the resource is parsed and registered under its name, its
\* alias is registered, and name, details and script are emptied
register(st) ==
    LET s == Scriptlet_parse(st.script)
        name == without_js_extension(unwrap(st.name))
    IN  IF s.status = "panic" THEN Panic
        ELSE Ok([scriptlets |-> (name :> s.val) @@ st.scriptlets,
                 aliases |-> IF <<"a", "l", "i", "a", "s">> \in DOMAIN st.details
                             THEN (without_js_extension(st.details[<<"a", "l", "i", "a", "s">>]) :> name)
                                      @@ st.aliases
                             ELSE st.aliases,
                 name |-> None, details |-> <<>>, script |-> <<>>])

\* one turn of the loop over the lines; words is line[4..].split_whitespace()
template_line(st, line) ==
    LET words == SelectSeq(split(from(line, 4), " "), LAMBDA word : word # <<>>) IN
    IF starts_with(line, <<"#">>) \/ starts_with(line, <<"/", "/", " ">>) THEN Ok(st)
    ELSE IF is_none(st.name)
    THEN Ok(IF starts_with(line, <<"/", "/", "/", " ">>)
            THEN [st EXCEPT !.name = Some(trim(from(line, 4)))]
            ELSE st)
    ELSE IF starts_with(line, <<"/", "/", "/", " ">>)
    THEN IF Len(words) < 2 THEN Panic
         ELSE Ok([st EXCEPT !.details = (words[1] :> words[2]) @@ st.details])
    ELSE IF \E i \in 1..Len(line) : line[i] # " "
    THEN Ok([st EXCEPT !.script = st.script \o trim(line)])
    ELSE register(st)

RECURSIVE template_lines(_, _)
\* the loop over the lines, as far as it gets
template_lines(st, rest) ==
    IF rest = <<>> THEN Ok(st)
    ELSE LET turn == template_line(st, rest[1]) IN
         IF turn.status = "panic" THEN Panic ELSE template_lines(turn.val, Tail(rest))

\* Scriptlets::parse_template_file. TOP_COMMENT_RE.replace_all(data, ""): a text
\* that starts with "/*" loses everything up to the first line that starts with
\* "*/", at least one byte after the "/*", together with the white space that
\* follows. str::lines: the text between line feeds, without an empty last line
parse_template_file(data) ==
    LET closers == {i \in 4..(Len(data) - 2) : SubSeq(data, i, i + 2) = <<"\n", "*", "/">>}
        closer == CHOOSE i \in closers : \A j \in closers : i <= j
        rest == {i \in (closer + 3)..Len(data) : data[i] \notin {" ", "\n"}}
        uncommented == IF ~starts_with(data, <<"/", "*">>) \/ closers = {} THEN data
                       ELSE IF rest = {} THEN <<>>
                       ELSE SubSeq(data, CHOOSE i \in rest : \A j \in rest : i <= j,
                                   Len(data))
        pieces == split(uncommented, "\n")
        lines == IF pieces[Len(pieces)] = <<>> THEN SubSeq(pieces, 1, Len(pieces) - 1)
                 ELSE pieces
        done == template_lines([scriptlets |-> <<>>, aliases |-> <<>>, name |-> None,
                                details |-> <<>>, script |-> <<>>], lines)
    IN  IF done.status = "panic" THEN Panic
        ELSE Ok([scriptlets |-> done.val.scriptlets, aliases |-> done.val.aliases])

\* Scriptlets::add_scriptlet
add_scriptlet(self, name, scriptlet) ==
    [self EXCEPT !.scriptlets = (name :> scriptlet) @@ self.scriptlets]

-----------------------------------------------------------------------------
(* Catalogs as they are built: a resource file is parsed, or a scriptlet   *)
(* is added to a catalog, and the catalog is then asked for a scriptlet;   *)
(* and a template is patched and the text parsed again                     *)

\* each line with its line feed
Text(file_lines) == Concat([i \in 1..Len(file_lines) |-> file_lines[i] \o <<"\n">>])

\* the pieces resource files are put together from: resources with one alias, with
\* two, with none, with a body of two lines to trim, with comment lines inside, one
\* closed by a line of spaces, one without its blank line, one with a metadata line
\* without value, a second resource named a, an opening line of two words, a
\* stretch of comments and blank lines, and the comment that heads the file
Blocks ==
    {<<<<"/", "/", "/", " ", "a", ".", "j", "s">>, <<"/", "/", "/", " ", "a", "l", "i", "a", "s", " ", "c", ".", "j", "s">>, <<"x">>, <<>>>>,
     <<<<"/", "/", "/", " ", "b">>, <<" ", "x", " ">>, <<"{", "{", "1", "}", "}">>, <<>>>>,
     <<<<"/", "/", "/", " ", "a">>, <<"/", "/", "/", " ", "a", "l", "i", "a", "s", " ", "c">>, <<"/", "/", "/", " ", "a", "l", "i", "a", "s", " ", "d", ".", "j", "s">>, <<"y">>, <<>>>>,
     <<<<"/", "/", "/", " ", "b", ".", "j", "s">>, <<"/", "/", "/", " ", "a", "l", "i", "a", "s", " ", "c">>, <<"{", "{", "1", "}", "}">>>>,
     <<<<"/", "/", "/", " ", "a">>, <<"/", "/", "/", " ", "k">>, <<"x">>, <<>>>>,
     <<<<"/", "/", "/", " ", "d">>, <<"#", " ", "c">>, <<"/", "/", " ", "c">>, <<"w">>, <<" ", " ">>>>,
     <<<<"/", "/", "/", " ", "a", ".", "j", "s">>, <<"z">>, <<>>>>,
     <<<<"/", "/", "/", " ", "e", " ", "f">>, <<"v">>, <<>>>>,
     <<<<"#", " ", "c">>, <<"/", "/", " ", "c">>, <<>>, <<"x">>>>,
     <<<<"/", "*">>, <<"c">>, <<"*", "/">>, <<>>>>}

\* number of pieces of a resource file
MaxBlocks == 3

Files == {Text(Concat(blocks)) : blocks \in SeqsUpTo(Blocks, MaxBlocks)}

\* the names and the arguments a catalog read from a file is asked with
FileNames == {<<"a">>, <<"a", ".", "j", "s">>, <<"b">>, <<"c">>, <<"c", ".", "j", "s">>, <<"d">>, <<"d", ".", "j", "s">>, <<"e", " ", "f">>}
FileArgs == {<<>>, <<<<"u">>>>}

\* the names a scriptlet is added under
AddedNames == {<<"a">>, <<"a", ".", "j", "s">>, <<"y">>, <<"n">>, <<"a", "l">>}
AddedTemplates == {<<"n", "(", ")">>, <<"n", "(", "{", "{", "1", "}", "}", ")">>, <<"n", "(", "{", "{", "1", "}", "}", ",", "{", "{", "2", "}", "}", ")">>}

\* templates and escaped arguments of the round trip
RenderedTemplates ==
    {Concat(pieces) :
        pieces \in SeqsUpTo({<<"x">>, <<"{">>, <<"}">>, <<"{", "{", "1", "}", "}">>, <<"{", "{", "2", "}", "}">>, <<"1", "}", "}">>}, MaxPieces)}
RenderedArgs == SeqsUpTo({<<"u">>, <<"{">>, <<"{", "{", "1", "}", "}">>}, MaxArgs)

CatalogInit ==
    /\ \/ \E data \in Files : script_in = [op |-> "parse_template_file", data |-> data]
       \/ \E self \in Catalogs, name \in AddedNames, data \in AddedTemplates :
              script_in = [op |-> "add_scriptlet", self |-> self, name |-> name,
                           scriptlet |-> Scriptlet_parse(data).val]
       \/ \E data \in RenderedTemplates, args \in RenderedArgs :
              /\ Scriptlet_parse(data).status = "ok"
              /\ script_in = [op |-> "patch", data |-> data,
                              self |-> Scriptlet_parse(data).val, args |-> args]
    /\ script_out = None
    /\ IdleCache
    /\ IdleSheet
    /\ IdleReaders
    /\ IdleParse

ParseTemplateFile ==
    /\ is_none(script_out)
    /\ script_in.op = "parse_template_file"
    /\ script_out' = Some(parse_template_file(script_in.data))
    /\ UNCHANGED <<script_in, cacheVars, sheetVars, concVars, parseVars>>

\* the catalog read from the file is asked for a scriptlet
GetParsedScriptlet ==
    /\ is_some(script_out)
    /\ script_in.op = "parse_template_file"
    /\ unwrap(script_out).status = "ok"
    /\ \E name \in FileNames, args \in FileArgs :
           /\ script_in' = [op |-> "get_scriptlet", self |-> unwrap(script_out).val,
                            name |-> name, args |-> args,
                            scriptlet_args |-> Invocation(name, args),
                            data |-> script_in.data]
           /\ script_out' = Some(get_scriptlet(unwrap(script_out).val,
                                               Invocation(name, args)))
    /\ UNCHANGED <<cacheVars, sheetVars, concVars, parseVars>>

AddScriptlet ==
    /\ is_none(script_out)
    /\ script_in.op = "add_scriptlet"
    /\ script_out' = Some(Ok(add_scriptlet(script_in.self, script_in.name,
                                           script_in.scriptlet)))
    /\ UNCHANGED <<script_in, cacheVars, sheetVars, concVars, parseVars>>

\* the catalog is asked for the scriptlet just added, by the name it was added
\* under, with as many arguments as it requires
GetAddedScriptlet ==
    /\ is_some(script_out)
    /\ script_in.op = "add_scriptlet"
    /\ LET args == [i \in 1..script_in.scriptlet.required_args |-> <<"u">>] IN
       /\ script_in' = [op |-> "get_scriptlet", self |-> unwrap(script_out).val,
                        name |-> script_in.name, args |-> args,
                        scriptlet_args |-> Invocation(script_in.name, args),
                        added |-> script_in.scriptlet]
       /\ script_out' = Some(get_scriptlet(unwrap(script_out).val,
                                           Invocation(script_in.name, args)))
    /\ UNCHANGED <<cacheVars, sheetVars, concVars, parseVars>>

\* the text patch returned is parsed again
Reparse ==
    /\ is_some(script_out)
    /\ script_in.op = "patch"
    /\ unwrap(script_out).status = "ok"
    /\ script_in' = [op |-> "parse", data |-> unwrap(script_out).val,
                     rendered |-> script_in]
    /\ script_out' = Some(Scriptlet_parse(unwrap(script_out).val))
    /\ UNCHANGED <<cacheVars, sheetVars, concVars, parseVars>>

CatalogNext ==
    \/ ParseTemplateFile
    \/ GetParsedScriptlet
    \/ AddScriptlet
    \/ GetAddedScriptlet
    \/ Patch
    \/ Reparse

CatalogSpec == CatalogInit /\ [][CatalogNext]_vars

-----------------------------------------------------------------------------
(* Statements about catalogs as they are built                             *)

\* parse_template_file has run on script_in.data
FileParsed == script_in.op = "parse_template_file" /\ is_some(script_out)

(* C22: parse_template_file is total: for every text in the resource-file  *)
(* format, a metadata line without a value and a name line that follows a  *)
(* body without a blank line included, it returns a catalog and never      *)
(* aborts.                                                                 *)
C22_ParseTemplateFileIsTotal ==
    FileParsed => ScriptOut.status = "ok"

\* the lines of a resource file, the comment that heads it left out
FileLines(data) ==
    LET pieces == split(data, "\n")
        all == IF pieces[Len(pieces)] = <<>> THEN SubSeq(pieces, 1, Len(pieces) - 1)
               ELSE pieces
        ends == {j \in 2..Len(all) : starts_with(all[j], <<"*", "/">>)}
        first == CHOOSE e \in ends : \A j \in ends : e <= j
        kept == {j \in (first + 1)..Len(all) :
                    \E k \in (first + 1)..j : Range(all[k]) \ {" "} # {}}
    IN  IF starts_with(data, <<"/", "*">>) /\ ends # {}
        THEN SelectSeq([j \in 1..Len(all) |-> IF j \in kept THEN <<all[j]>> ELSE <<>>],
                       LAMBDA l : l # <<>>)
        ELSE [j \in 1..Len(all) |-> <<all[j]>>]

\* the line neither is a comment nor holds anything but spaces
BlankLine(line) ==
    /\ ~starts_with(line, <<"#">>)
    /\ ~starts_with(line, <<"/", "/", " ">>)
    /\ Range(line) \subseteq {" "}

RECURSIVE OpenedBy(_, _)
\* the number of the "/// name" line of the resource that is open when line i of
\* ls is read, 0 when none is
OpenedBy(ls, i) ==
    IF i = 1 THEN 0
    ELSE LET before == OpenedBy(ls, i - 1) IN
         IF before = 0
         THEN IF starts_with(ls[i - 1][1], <<"/", "/", "/", " ">>) THEN i - 1 ELSE 0
         ELSE IF BlankLine(ls[i - 1][1]) THEN 0 ELSE before

\* the resources of the file that a blank line closes: the numbers of the opening
\* line and of the blank line
ClosedResources(ls) ==
    {r \in (1..Len(ls)) \X (1..Len(ls)) :
        /\ BlankLine(ls[r[2]][1])
        /\ OpenedBy(ls, r[2]) = r[1]}

ResourceName(ls, r) == without_js_extension(trim(SubSeq(ls[r[1]][1], 5, Len(ls[r[1]][1]))))

\* the body lines of the resource, trimmed and joined
ResourceBody(ls, r) ==
    Concat(SelectSeq([k \in 1..(r[2] - r[1] - 1) |->
                          LET line == ls[r[1] + k][1] IN
                          IF \/ starts_with(line, <<"/", "/", "/">>)
                             \/ starts_with(line, <<"#">>)
                             \/ starts_with(line, <<"/", "/", " ">>)
                          THEN <<>> ELSE trim(line)],
                     LAMBDA l : TRUE))

\* the aliases the "/// alias value" lines of the resource declare
DeclaredAliases(ls, r) ==
    {without_js_extension(SubSeq(ls[k][1], 11, Len(ls[k][1]))) :
        k \in {k \in (r[1] + 1)..(r[2] - 1) : starts_with(ls[k][1], <<"/", "/", "/", " ", "a", "l", "i", "a", "s", " ">>)}}

\* no name, alias or body of the catalog but those of the closed resources
NothingCarriedOver(catalog, ls) ==
    /\ DOMAIN catalog.scriptlets = {ResourceName(ls, r) : r \in ClosedResources(ls)}
    /\ \A alias \in DOMAIN catalog.aliases :
           \E r \in ClosedResources(ls) :
               /\ alias \in DeclaredAliases(ls, r)
               /\ catalog.aliases[alias] = ResourceName(ls, r)

(* C23: after parse_template_file, every resource opened by a "/// name"   *)
(* line and closed by a blank line is registered under its name without    *)
(* ".js", and its template is the parse of its body lines, trimmed and     *)
(* joined in file order; nothing of a resource carries over into the next. *)
C23_ResourcesRegistered ==
    FileParsed /\ ScriptOut.status = "ok" =>
        LET ls == FileLines(script_in.data) IN
        /\ \A r \in ClosedResources(ls) :
               /\ ResourceName(ls, r) \in DOMAIN ScriptOut.val.scriptlets
               /\ ScriptOut.val.scriptlets[ResourceName(ls, r)]
                      = Scriptlet_parse(ResourceBody(ls, r)).val
        /\ NothingCarriedOver(ScriptOut.val, ls)

\* no later closed resource of the file has the name of r
LastOfItsName(ls, r) ==
    \A s \in ClosedResources(ls) : ResourceName(ls, s) = ResourceName(ls, r) => s[1] <= r[1]

(* C23, amended: ... every such resource is registered under its name, and *)
(* the template under a name is the parse of the body lines of the last    *)
(* resource of that name; nothing of a resource carries over into the      *)
(* next.                                                                   *)
C23_LastResourceOfEachNameRegistered ==
    FileParsed /\ ScriptOut.status = "ok" =>
        LET ls == FileLines(script_in.data) IN
        /\ \A r \in ClosedResources(ls) :
               /\ ResourceName(ls, r) \in DOMAIN ScriptOut.val.scriptlets
               /\ LastOfItsName(ls, r) =>
                      ScriptOut.val.scriptlets[ResourceName(ls, r)]
                          = Scriptlet_parse(ResourceBody(ls, r)).val
        /\ NothingCarriedOver(ScriptOut.val, ls)

\* a file of three resources: the body of the second has two lines to trim, and a
\* resource with comment lines in its body follows it
C23_Witness ==
    /\ FileParsed
    /\ script_in.data = Text(<<<<"/", "/", "/", " ", "a", ".", "j", "s">>, <<"/", "/", "/", " ", "a", "l", "i", "a", "s", " ", "c", ".", "j", "s">>, <<"x">>, <<>>,
                               <<"/", "/", "/", " ", "b">>, <<" ", "x", " ">>, <<"{", "{", "1", "}", "}">>, <<>>,
                               <<"/", "/", "/", " ", "d">>, <<"#", " ", "c">>, <<"/", "/", " ", "c">>, <<"w">>, <<" ", " ">>>>)
    /\ ScriptOut.status = "ok"
    /\ DOMAIN ScriptOut.val.scriptlets = {<<"a">>, <<"b">>, <<"d">>}
    /\ ScriptOut.val.scriptlets[<<"b">>] = Scriptlet_parse(<<"x", "{", "{", "1", "}", "}">>).val
    /\ ScriptOut.val.scriptlets[<<"d">>] = Scriptlet_parse(<<"w">>).val
    /\ DOMAIN ScriptOut.val.aliases = {<<"c">>}

\* the text patch returned for script_in.rendered has been parsed again
Reparsed == script_in.op = "parse" /\ "rendered" \in DOMAIN script_in /\ is_some(script_out)

\* the arguments are as parse_scriptlet_args leaves them, and as many as required
EscapedArgs(self, args) ==
    /\ Len(args) = self.required_args
    /\ \A i \in 1..Len(args) : escape(trim(args[i])) = args[i]

(* C24: for every template T with required_args = k and every list of k    *)
(* escaped arguments, parsing the text that patching T produced gives the  *)
(* parts of T again, and no substituted argument is taken for a            *)
(* placeholder in that text.                                               *)
C24_PatchedTextParsesBack ==
    Reparsed /\ EscapedArgs(script_in.rendered.self, script_in.rendered.args) =>
        /\ ScriptOut.status = "ok"
        /\ ScriptOut.val.parts = script_in.rendered.self.parts
        /\ \A i \in 1..Len(ScriptOut.val.parts) : ScriptOut.val.parts[i].kind # "Argument"

\* get_scriptlet has been called for the scriptlet add_scriptlet just stored
AddedAsked ==
    script_in.op = "get_scriptlet" /\ "added" \in DOMAIN script_in /\ is_some(script_out)

(* C29: after add_scriptlet(name, scriptlet) on any catalog, get_scriptlet *)
(* with that name and required_args arguments returns the patched text of  *)
(* that scriptlet, for every name: names that end in ".js" and names that  *)
(* are an alias of another scriptlet included.                             *)
C29_AddedScriptletIsFound ==
    AddedAsked => SameResult(ScriptOut, patch(script_in.added, script_in.args))

\* get_scriptlet has been called on the catalog read from the file script_in.data
ParsedAsked ==
    script_in.op = "get_scriptlet" /\ "data" \in DOMAIN script_in /\ is_some(script_out)

(* C30: after parse_template_file, every "/// alias value" line declared   *)
(* inside a resource resolves to that resource: get_scriptlet with each    *)
(* declared alias, with or without ".js", returns the same result as with  *)
(* the name of the resource, also when the resource has several alias      *)
(* lines; an alias declared in one resource never resolves to another.     *)
C30_DeclaredAliasesResolve ==
    ParsedAsked =>
        LET ls == FileLines(script_in.data) IN
        \A r \in ClosedResources(ls) :
            without_js_extension(script_in.name) \in DeclaredAliases(ls, r) =>
                SameResult(ScriptOut,
                           get_scriptlet(script_in.self,
                                         Invocation(ResourceName(ls, r), script_in.args)))

-----------------------------------------------------------------------------
(* is_simple_selector on its own, applied once to a class or id selector   *)

\* number of pieces that follow the "." or "#" of a selector
MaxSelectorPieces == 3

SelectorInit ==
    /\ \E first \in {<<".">>, <<"#">>} :
       \E pieces \in SeqsUpTo({<<"a">>, <<"-">>, <<"[">>, <<" ">>, <<">">>, <<".">>, <<"C3", "A9">>},
                              MaxSelectorPieces) :
           parse_in = [selector |-> first \o Concat(pieces)]
    /\ parse_out = None
    /\ IdleCache
    /\ IdleSheet
    /\ IdleReaders
    /\ IdleScript

IsSimpleSelector ==
    /\ is_none(parse_out)
    /\ parse_out' = Some(is_simple_selector(parse_in.selector))
    /\ UNCHANGED <<parse_in, cacheVars, sheetVars, concVars, scriptVars>>

SelectorSpec == SelectorInit /\ [][IsSimpleSelector]_vars

\* the scan as documented, over the positions of cs: characters or bytes
SimpleBy(cs) ==
    LET stops == {p \in 2..Len(cs) : cs[p] \notin TOKEN}
        p == CHOOSE q \in stops : \A r \in stops : q <= r
    IN  IF stops = {} THEN TRUE
        ELSE \/ cs[p] = "["
             \/ cs[p] = " " /\ p < Len(cs) /\ cs[p + 1] \in {">", "+", "~", ".", "#"}

(* C25: for a selector that starts with "." or "#", is_simple_selector     *)
(* scans from the second character over letters, digits, "-" and "_"; at   *)
(* the first other character it answers true iff that character is "[",    *)
(* or a space followed by one of > + ~ . #; a selector of token characters *)
(* only is simple; and the answer is the same whether positions are        *)
(* counted in characters or in bytes.                                      *)
C25_SimpleSelectorScan ==
    is_some(parse_out) /\ "selector" \in DOMAIN parse_in =>
        /\ unwrap(parse_out) = Ok(SimpleBy(chars(parse_in.selector)))
        /\ unwrap(parse_out) = Ok(SimpleBy(parse_in.selector))

-----------------------------------------------------------------------------
(* Further statements about the cache                                      *)

\* the selectors of the rule a class_id_stylesheet call returned, none when it
\* returned no stylesheet
Emitted(result) ==
    IF result.val = None THEN {}
    ELSE LET text == unwrap(result.val) IN
         Range(split(SubSeq(text, 1, Len(text) - Len(DISPLAY_NONE)), ","))

\* every selector of the bucket of token k is emitted, and so is the plain selector
\* of k when the simple table holds k
BucketEmitted(mark, k, simple, complex, emitted) ==
    k \in DOMAIN complex =>
        /\ Range(complex[k]) \subseteq emitted
        /\ k \in simple => (<<mark>> \o k) \in emitted

(* C26: every unscoped class or id rule that add_filter stored in          *)
(* complex_class_rules[k] or complex_id_rules[k] is emitted by every later *)
(* class_id_stylesheet call whose classes (ids) contain k, whether or not  *)
(* a plain .k (#k) rule was inserted too; and when both exist for k, the   *)
(* plain selector is part of the output as well.                           *)
C26_ComplexRulesEmitted ==
    ret.op = "class_id_stylesheet" =>
        /\ \A k \in Range(ret.args[1]) :
               BucketEmitted(".", k, cache.simple_class_rules, cache.complex_class_rules,
                             Emitted(ret.result))
        /\ \A k \in Range(ret.args[2]) :
               BucketEmitted("#", k, cache.simple_id_rules, cache.complex_id_rules,
                             Emitted(ret.result))

\* the cache built from the rules inserted so far that have no hostname or entity
\* constraint
UnscopedOnly == new(SelectSeq(history, LAMBDA rule : ~has_hostname_constraint(rule)))

\* ... and from those that have none or match the hostname
MatchingOnly(hostname) ==
    new(SelectSeq(history,
                  LAMBDA rule : ~has_hostname_constraint(rule) \/ Retained(rule, hostname)))

(* C27: after any sequence of add_filter calls, a rule with a hostname or  *)
(* entity constraint is never reflected in what class_id_stylesheet or     *)
(* base_stylesheet return, whatever the classes and ids, even when its     *)
(* selector is a simple class or id selector; it can only appear in        *)
(* hostname_stylesheet for a hostname it matches.                          *)
C27_ScopedRulesOnlyByHostname ==
    /\ ret.op = "class_id_stylesheet" =>
           ret.result = class_id_stylesheet(UnscopedOnly, ret.args[1], ret.args[2])
    /\ ret.op = "base_stylesheet" =>
           ret.result = base_stylesheet(UnscopedOnly).result
    /\ ret.op = "hostname_stylesheet" =>
           ret.result = hostname_stylesheet(MatchingOnly(ret.args[1]), ret.args[1])

\* a page with the class a and the id i asks a cache that holds the scoped rule .a
\* and the plain rule #i, and no plain rule of a: the stylesheet has #i only
C27_Witness ==
    /\ ret.op = "class_id_stylesheet"
    /\ RuleHost \in Range(history)
    /\ RuleClassA \notin Range(history)
    /\ RuleIdI \in Range(history)
    /\ <<"a">> \in Range(ret.args[1])
    /\ Emitted(ret.result) = {<<"#", "i">>}

Reads == {"class_id_stylesheet", "hostname_stylesheet", "base_stylesheet"}

\* the call recorded in r, made on the cache c: the cache after it and the result
Again(c, r) ==
    IF r.op = "class_id_stylesheet"
    THEN [self |-> c, result |-> class_id_stylesheet(c, r.args[1], r.args[2])]
    ELSE IF r.op = "hostname_stylesheet"
    THEN [self |-> c, result |-> hostname_stylesheet(c, r.args[1])]
    ELSE base_stylesheet(c)

(* C28: class_id_stylesheet, hostname_stylesheet and base_stylesheet leave *)
(* the rule containers unchanged; the only state a read may change is the  *)
(* cached base stylesheet, which it fills when absent; so the same read    *)
(* with the same arguments, with no add_filter in between, returns an      *)
(* equal result.                                                           *)
C28_ReadsLeaveContainers ==
    [][ret'.op \in Reads =>
          /\ SameExcept(cache, cache', {"base_stylesheet"})
          /\ cache'.base_stylesheet # cache.base_stylesheet =>
                 is_none(cache.base_stylesheet) /\ is_some(cache'.base_stylesheet)
          /\ Again(cache', ret') = [self |-> cache', result |-> ret'.result]
          /\ (ret.op \in Reads /\ ret.op = ret'.op /\ ret.args = ret'.args) =>
                 ret'.result = ret.result]_vars

\* base_stylesheet was called after a rule for the base stylesheet had been added:
\* the cell holds the stylesheet with that rule
C28_Witness ==
    /\ ret.op = "base_stylesheet"
    /\ added > 0
    /\ MiscRule(Last(history))
    /\ cache.misc_rules # <<>>
    /\ cache.base_stylesheet = Some(rules_to_stylesheet(cache.misc_rules))
    /\ ret.result = Ok(rules_to_stylesheet(cache.misc_rules))


=============================================================================
